---- MODULE Spec2Model ----
(***************************************************************************)
(* LAPSE dashboard: the join of the source tables, the section grouping,   *)
(* the filter engine, the contextual filter options and the keyword scope  *)
(* resolver, as implemented by src/App.tsx (current App component, lines   *)
(* 589-1367), src/services/dataService.ts and its variant with governance  *)
(* keywords (src/unnamed/part_007), the legacy JSON loader                 *)
(* (src/unnamed/part_000), src/scripts/generate-optimized-json.js and      *)
(* src/components/LegislationList.tsx (grouping, section aggregation and   *)
(* the highlights of the list).                                            *)
(*                                                                         *)
(* Strings are TLA+ strings.  The operations the code applies to them      *)
(* (toLowerCase, trim, split(';'), includes, RegExp \b...\b) are computed  *)
(* on an explicit denotation: a semicolon-encoded field is the sequence of *)
(* its segments (the pieces between the semicolons), and a text is the     *)
(* sequence of its symbols given by Sym (runs of word characters, the      *)
(* blank " " and the parentheses).                                         *)
(***************************************************************************)
EXTENDS Integers, Sequences, FiniteSets, TLC

VARIABLES
  paragraphRows,          \* paragraph_output.csv as parsed (dataService.ts:77)
  legislationRows,        \* legislation_output.csv as parsed (dataService.ts:78)
  governanceKeywordRows,  \* governance_keywords.csv as parsed (part_007:110)
  warnings,               \* console.warn lines of the join (dataService.ts:103)
  dataCache,              \* dataService.ts:11
  governanceKeywordCache, \* part_007:12
  data,                   \* App.tsx:600
  isLoading,              \* App.tsx:601
  error,                  \* App.tsx:602
  filters,                \* App.tsx:613
  localSearchTerm,        \* App.tsx:611
  timer,                  \* the debounce timeout (App.tsx:627): pending or not, and the captured term
  lastOp,                 \* the upstream key the last handler changed, "retry"
                          \* while the load started by Retry is the last one, "" if none
  joined,                 \* result of the last join run on its own (SpecJoin)
  jsonInput,              \* full_data.json as parsed (part_000:1013)
  rawData,                \* full_data.json as read by generate-optimized-json.js:12
  kw,                     \* last call of filterKeywordsByDomain since the caches changed
  calls                   \* the calls of loadLegislationData made so far (SpecLoad), and the
                          \* calls whose continuation assigned the two caches

vars == <<paragraphRows, legislationRows, governanceKeywordRows, warnings, dataCache, governanceKeywordCache,
          data, isLoading, error, filters, localSearchTerm, timer, lastOp,
          joined, jsonInput, rawData, kw, calls>>

-----------------------------------------------------------------------------
(* Bounds *)

MaxParas == 2      \* paragraphs in a loaded paragraph table
MaxActive == 2     \* filter dimensions that are narrowed at the same time
MaxLabels == 3     \* label records in full_data.json
MaxGovRows == 3    \* rows of governance_keywords.csv
MaxCalls == 3      \* calls of loadLegislationData in one run

-----------------------------------------------------------------------------
(* Strings *)

NULL == "<null>"
All == "All"

\* String.prototype.toLowerCase on the strings of the model
LowerTable ==
  ("Fisheries" :> "fisheries") @@ ("Pollution" :> "pollution") @@
  (" Pollution" :> " pollution") @@
  ("Mandatory" :> "mandatory") @@ ("MANDATORY" :> "mandatory") @@
  ("Regulatory" :> "regulatory") @@ ("Enabling" :> "enabling") @@
  ("Duty" :> "duty") @@ ("Minister" :> "minister") @@
  ("Spawning" :> "spawning") @@ (" Spawning " :> " spawning ") @@
  ("Fisheries Act" :> "fisheries act") @@ ("Water Act" :> "water act") @@
  ("Fishery Regulations" :> "fishery regulations") @@
  ("Fish habitat" :> "fish habitat") @@ ("Licences" :> "licences") @@
  ("All" :> "all") @@ ("Act" :> "act") @@ ("Regulation" :> "regulation") @@
  ("Spawn" :> "spawn") @@ ("Effluent" :> "effluent")

ToLowerCase(s) == IF s \in DOMAIN LowerTable THEN LowerTable[s] ELSE s

\* String.prototype.trim on the strings of the model
TrimTable ==
  (" " :> "") @@ (" 5 " :> "5") @@ (" Pollution" :> "Pollution") @@
  (" pollution" :> "pollution") @@ (" Spawning " :> "Spawning") @@
  (" spawning " :> "spawning") @@ (" spawning" :> "spawning") @@
  (" effluent" :> "effluent") @@
  (" Spawn" :> "Spawn") @@ (" habitat near" :> "habitat near") @@ (" habitat" :> "habitat")

Trim(s) == IF s \in DOMAIN TrimTable THEN TrimTable[s] ELSE s

\* The symbols of a text: maximal chunks of word characters, and blanks.
SymTable ==
  ("" :> <<>>) @@ (" " :> <<" ">>) @@
  ("fisheries act" :> <<"fisheries", " ", "act">>) @@
  ("water act" :> <<"water", " ", "act">>) @@
  ("fishery regulations" :> <<"fishery", " ", "regulations">>) @@
  ("fish habitat" :> <<"fish", " ", "habitat">>) @@
  ("spawning" :> <<"spawn", "ing">>) @@
  ("spawning habitat" :> <<"spawn", "ing", " ", "habitat">>) @@
  ("effluent discharge" :> <<"effluent", " ", "discharge">>) @@
  ("spawning habitat near effluent discharge" :>
      <<"spawn", "ing", " ", "habitat", " ", "near", " ", "effluent", " ", "discharge">>) @@
  ("respawn effluents" :> <<"re", "spawn", " ", "effluent", "s">>) @@
  ("habitat near" :> <<"habitat", " ", "near">>) @@
  ("spawning (habitat)" :> <<"spawn", "ing", " ", "(", "habitat", ")">>) @@
  ("(habitat" :> <<"(", "habitat">>) @@
  ("works" :> <<"works">>)

Sym(s) == IF s \in DOMAIN SymTable THEN SymTable[s] ELSE <<s>>

IsWordSym(c) == c \notin {" ", "(", ")"}

\* String.prototype.includes: t occurs in h as a contiguous run of symbols
Includes(h, t) ==
  \E i \in 0..(Len(h) - Len(t)) : \A j \in 1..Len(t) : h[i + j] = t[j]

Range(s) == {s[i] : i \in 1..Len(s)}

\* field.split(';').map(v => v.trim()).filter(Boolean): a semicolon-encoded
\* field is held as the sequence of its segments, "" being <<"">>
SplitTrim(field) ==
  LET trimmed == [i \in 1..Len(field) |-> Trim(field[i])]
      NonEmpty(v) == v # ""
  IN  SelectSeq(trimmed, NonEmpty)

\* parseInt(s) || 0 on the id columns of the CSV
ParseIntTable ==
  ("1" :> 1) @@ ("2" :> 2) @@ ("3" :> 3) @@ ("4" :> 4) @@ ("5" :> 5) @@ ("9" :> 9)

ParseInt(s) == IF s \in DOMAIN ParseIntTable THEN ParseIntTable[s] ELSE 0

-----------------------------------------------------------------------------
(* Source tables *)

\* legislation_output.csv
Leg(id, jur, type, act, name) ==
  [legislation_id |-> id, jurisdiction |-> jur, legislation_type |-> type,
   act_name |-> act, legislation_name |-> name]

LegislationTable ==
  << Leg("1", "Federal", "Act", "Fisheries Act", "Fisheries Act"),
     Leg("2", "Federal", "Regulation", "Fisheries Act", "Fishery Regulations"),
     Leg("3", "Provincial", "Act", "Water Act", "Water Act") >>

\* paragraph_output.csv: the paragraphs a loaded table is drawn from
Para(pid, leg, sec, head, text, dom, kws, clause, actionable, official, discretion) ==
  [paragraph_id |-> pid, legislation_id |-> leg, section |-> sec, heading |-> head,
   paragraph |-> text, management_domain |-> dom, mgmt_d_keyword |-> kws,
   clause_type |-> clause, clause_type_keyword |-> <<"">>,
   actionable_type |-> actionable, responsible_official |-> official,
   discretion_type |-> discretion]

Corpus ==
  << Para("1", "1", "5", "Fish habitat", "spawning habitat", <<"Fisheries">>, <<"habitat">>,
          <<"Regulatory">>, <<"Duty">>, <<"Minister">>, <<"Mandatory">>),
     Para("2", "1", " 5 ", "", "effluent discharge", <<"">>, <<"">>,
          <<"Enabling">>, <<"">>, <<"">>, <<"">>),
     Para("3", "2", "", "Licences", "spawning", <<"fisheries", " Pollution">>, <<"">>,
          <<"regulatory">>, <<"duty">>, <<"minister">>, <<"mandatory">>),
     Para("", "3", "", "", "effluent discharge", <<"Pollution">>, <<"discharge">>,
          <<"">>, <<"">>, <<"">>, <<"MANDATORY", "mandatory">>),
     Para("", "3", " ", "Licences", "spawning habitat near effluent discharge", <<"">>, <<"">>,
          <<"Enabling", "regulatory">>, <<"Duty">>, <<"">>, <<"">>) >>

\* the subsequence of s at the positions in idx, in the order of s
RECURSIVE Pick(_, _, _)
Pick(s, idx, i) ==
  IF i > Len(s) THEN <<>>
  ELSE (IF i \in idx THEN <<s[i]>> ELSE <<>>) \o Pick(s, idx, i + 1)

ParagraphTables ==
  { Pick(Corpus, idx, 1) :
      idx \in {x \in SUBSET (1..Len(Corpus)) : Cardinality(x) \in 1..MaxParas} }

\* a paragraph with parentheses in its text
PatternParagraph ==
  Para("5", "1", "6", "Works", "spawning (habitat)", <<"Fisheries">>, <<"">>,
       <<"">>, <<"">>, <<"">>, <<"">>)

\* the paragraphs the list component is rendered for
ListCorpus == {Corpus[1], Corpus[2], Corpus[4], Corpus[5], PatternParagraph}

\* a paragraph whose legislation_id is not in legislation_output.csv
OrphanParagraph ==
  Para("4", "9", "5", "Fish habitat", "spawning habitat", <<"Fisheries">>, <<"">>,
       <<"Regulatory">>, <<"">>, <<"">>, <<"Mandatory">>)

\* the paragraph tables with the orphan paragraph, alone or after another paragraph
OrphanTables ==
  {<<OrphanParagraph>>} \cup {<<Corpus[i], OrphanParagraph>> : i \in 1..Len(Corpus)}

\* governance_keywords.csv
Gov(dom, kwd) == [management_domain |-> dom, keyword |-> kwd]

GovernanceRowUniverse ==
  { Gov("Fisheries", "spawning"), Gov("Fisheries", "Spawn"),
    Gov("Pollution", "effluent"), Gov("fisheries", "habitat near") }

GovernanceTable ==
  << Gov("Fisheries", "spawning"), Gov("Pollution", "effluent"), Gov("Fisheries", "Spawn") >>

\* the tables of n different rows of the universe, in every order
RECURSIVE TablesOf(_, _)
TablesOf(S, n) ==
  IF n = 0 THEN {<<>>}
  ELSE {Append(q, x) : q \in TablesOf(S, n - 1), x \in S}

GovernanceTables ==
  UNION {{q \in TablesOf(GovernanceRowUniverse, n) : Cardinality({q[i] : i \in 1..n}) = n} :
           n \in 0..MaxGovRows}

-----------------------------------------------------------------------------
(* Join & normalize: loadLegislationData *)

\* legislationMap.has(id) and legislationMap.get(id): the last row with that id
LegislationMapHas(rows, id) == \E i \in 1..Len(rows) : rows[i].legislation_id = id

LegislationMapGet(rows, id) ==
  rows[CHOOSE i \in 1..Len(rows) :
         /\ rows[i].legislation_id = id
         /\ \A j \in (i + 1)..Len(rows) : rows[j].legislation_id # id]

\* governanceKeywordMap: lower-cased domain -> keywords in row order
GovKeys(rows) == {ToLowerCase(rows[i].management_domain) : i \in 1..Len(rows)}

RECURSIVE GovKeywordsOf(_, _)
GovKeywordsOf(rows, key) ==
  IF rows = <<>> THEN <<>>
  ELSE (IF ToLowerCase(Head(rows).management_domain) = key
          THEN <<Head(rows).keyword>> ELSE <<>>) \o GovKeywordsOf(Tail(rows), key)

GovernanceKeywordMap(rows) == [k \in GovKeys(rows) |-> GovKeywordsOf(rows, k)]

\* a word boundary \b between two neighbouring symbols
WordBoundary(text, i) ==
  LET before == IF i >= 1 /\ i <= Len(text) THEN IsWordSym(text[i]) ELSE FALSE
      after  == IF i + 1 >= 1 /\ i + 1 <= Len(text) THEN IsWordSym(text[i + 1]) ELSE FALSE
  IN  before # after

\* faulty variant: the keyword is looked for as a substring
RegexSubstring(keyword, lowerText) ==
  Includes(Sym(lowerText), Sym(ToLowerCase(keyword)))

\* new RegExp(`\\b${escaped keyword.toLowerCase()}\\b`).test(lowerText)
RegexTest(keyword, lowerText) ==
  LET k == Sym(ToLowerCase(keyword))
      t == Sym(lowerText)
  IN  \E i \in 0..(Len(t) - Len(k)) :
        /\ \A j \in 1..Len(k) : t[i + j] = k[j]
        /\ WordBoundary(t, i)
        /\ WordBoundary(t, i + Len(k))

\* the elements of s in order of first occurrence (a JS Set)
RECURSIVE Distinct(_)
Distinct(s) ==
  IF s = <<>> THEN <<>>
  ELSE LET init == Distinct(SubSeq(s, 1, Len(s) - 1))
           last == s[Len(s)]
       IN  IF last \in Range(init) THEN init ELSE Append(init, last)

\* Array.prototype.flat
RECURSIVE Flatten(_)
Flatten(ss) ==
  IF ss = <<>> THEN <<>> ELSE Head(ss) \o Flatten(Tail(ss))

\* extractGovernanceKeywords: the matched keywords, as the list joined by '; '
extractGovernanceKeywords(paragraphText, managementDomain, governanceKeywordMap) ==
  LET lowerText == ToLowerCase(paragraphText)
      domainsToCheck == [i \in 1..Len(managementDomain) |-> Trim(managementDomain[i])]
      Matched(domain) ==
        LET key == ToLowerCase(domain)
        IN  IF key \in DOMAIN governanceKeywordMap
              THEN LET Hit(k) == RegexTest(k, lowerText)
                   IN  SelectSeq(governanceKeywordMap[key], Hit)
              ELSE <<>>
  IN  Distinct(Flatten([i \in 1..Len(domainsToCheck) |-> Matched(domainsToCheck[i])]))

\* the segments of parts.filter(Boolean).join('; '), each part given by its
\* own list of items joined by '; ': every segment but the first starts with a blank
JoinSemicolonBlank(items) ==
  IF items = <<>> THEN <<"">>
  ELSE [i \in 1..Len(items) |-> IF i = 1 THEN items[i] ELSE " " \o items[i]]

IsEmptyField(f) == f = <<"">>

\* one element of joinedData (part_007:142-193, dataService.ts:99-140)
JoinRow(para, index, legRows, governanceKeywordMap) ==
  LET found == LegislationMapHas(legRows, para.legislation_id)
      legislation == LegislationMapGet(legRows, para.legislation_id)
      Field(name, dflt) ==
        IF ~found THEN dflt
        ELSE IF legislation[name] = "" THEN dflt ELSE legislation[name]
      governanceKeywords ==
        IF para.paragraph # "" /\ ~IsEmptyField(para.management_domain)
          THEN extractGovernanceKeywords(para.paragraph, para.management_domain,
                                         governanceKeywordMap)
          ELSE <<>>
      combinedMgmtKeywords ==
        IF IsEmptyField(para.mgmt_d_keyword)
          THEN JoinSemicolonBlank(governanceKeywords)
          ELSE para.mgmt_d_keyword \o
               [i \in 1..Len(governanceKeywords) |-> " " \o governanceKeywords[i]]
  IN  [id |-> ToString(index + 1),
       paragraph_id |-> ParseInt(para.paragraph_id),
       legislation_id |-> ParseInt(para.legislation_id),
       jurisdiction |-> Field("jurisdiction", "Federal"),
       legislation_type |-> Field("legislation_type", ""),
       act_name |-> Field("act_name", ""),
       legislation_name |-> Field("legislation_name", ""),
       section |-> para.section,
       heading |-> para.heading,
       paragraph |-> para.paragraph,
       management_domain |-> para.management_domain,
       mgmt_d_keyword |-> combinedMgmtKeywords,
       clause_type |-> para.clause_type,
       clause_type_keyword |-> para.clause_type_keyword,
       actionable_type |-> para.actionable_type,
       responsible_official |-> para.responsible_official,
       discretion_type |-> para.discretion_type]

\* paragraphRows.map(...): one joined row per paragraph row
joinedData(paraRows, legRows, governanceKeywordMap) ==
  [i \in 1..Len(paraRows) |-> JoinRow(paraRows[i], i - 1, legRows, governanceKeywordMap)]

\* the console.warn lines of the join: the paragraph ids without legislation
JoinWarnings(paraRows, legRows) ==
  LET Orphan(para) == ~LegislationMapHas(legRows, para.legislation_id)
      orphans == SelectSeq(paraRows, Orphan)
  IN  [i \in 1..Len(orphans) |-> orphans[i].paragraph_id]

-----------------------------------------------------------------------------
(* Legacy join of full_data.json: loadData of the earlier App component *)

Label(pid, type, value) == [pid |-> pid, type |-> type, value |-> value]

LabelUniverse ==
  { Label(1, "Management Domain", "Fisheries"),
    Label(1, "Management Domain", "Pollution"),
    Label(1, "Clause Type", "Regulatory"),
    Label(2, "Management Domain", "Fisheries"),
    Label(2, "Management Domain", "") }

JsonPara(pid, leg, sec, head, text) ==
  [pid |-> pid, legislation_id |-> leg, section |-> sec, heading |-> head, paragraph |-> text]

\* rawData.paragraphs, in the key order of Object.entries
JsonParagraphs ==
  << JsonPara(1, "1", "5", "Fish habitat", "spawning habitat"),
     JsonPara(2, "9", "5", "", "effluent discharge"),
     JsonPara(3, "3", "", "Licences", "spawning") >>

RECURSIVE SeqsUpTo(_, _)
SeqsUpTo(S, n) ==
  IF n = 0 THEN {<<>>}
  ELSE LET shorter == SeqsUpTo(S, n - 1)
       IN  shorter \cup {Append(q, x) : q \in {r \in shorter : Len(r) = n - 1}, x \in S}

\* faulty variant: one row per label, duplicates of a domain included
LegacyRowsOfPerLabel(para, labels, legRows) ==
  LET found == LegislationMapHas(legRows, para.legislation_id)
      legMeta == LegislationMapGet(legRows, para.legislation_id)
      Mine(l) == l.pid = para.pid /\ l.type = "Management Domain" /\ l.value # ""
      mine == SelectSeq(labels, Mine)
      domains == IF Len(mine) > 0 THEN [i \in 1..Len(mine) |-> mine[i].value] ELSE <<"">>
  IN  IF ~found THEN <<>>
      ELSE [i \in 1..Len(domains) |->
              [jurisdiction |-> legMeta.jurisdiction,
               act_name |-> legMeta.act_name,
               legislation_name |-> legMeta.legislation_name,
               section |-> para.section,
               heading |-> para.heading,
               aggregate_paragraph |-> para.paragraph,
               management_domain |-> domains[i],
               clause_type |-> <<>>]]

\* the rows the forEach body of part_000:1031-1089 pushes for one paragraph
LegacyRowsOf(para, labels, legRows) ==
  LET found == LegislationMapHas(legRows, para.legislation_id)
      legMeta == LegislationMapGet(legRows, para.legislation_id)
      Mine(l) == l.pid = para.pid
      paraLabels == SelectSeq(labels, Mine)
      IsDomain(l) == l.type = "Management Domain"
      IsClause(l) == l.type = "Clause Type"
      Truthy(v) == v # ""
      domainLabels == SelectSeq(paraLabels, IsDomain)
      clauseLabels == SelectSeq(paraLabels, IsClause)
      managementDomains ==
        SelectSeq(Distinct([i \in 1..Len(domainLabels) |-> domainLabels[i].value]), Truthy)
      clauseTypes ==
        SelectSeq(Distinct([i \in 1..Len(clauseLabels) |-> clauseLabels[i].value]), Truthy)
      domains == IF Len(managementDomains) > 0 THEN managementDomains ELSE <<"">>
  IN  IF ~found THEN <<>>
      ELSE [i \in 1..Len(domains) |->
              [jurisdiction |-> legMeta.jurisdiction,
               act_name |-> legMeta.act_name,
               legislation_name |-> legMeta.legislation_name,
               section |-> para.section,
               heading |-> para.heading,
               aggregate_paragraph |-> para.paragraph,
               management_domain |-> domains[i],
               clause_type |-> clauseTypes]]

\* joinedData of part_000: the rows of all paragraphs, ids from idCounter
LegacyJoinedData(paras, labels, legRows) ==
  LET rows == Flatten([i \in 1..Len(paras) |-> LegacyRowsOf(paras[i], labels, legRows)])
  IN  [i \in 1..Len(rows) |-> [id |-> ToString(i)] @@ rows[i]]

-----------------------------------------------------------------------------
(* Aggregation of the flat records: scripts/generate-optimized-json.js *)

\* one record of the flat full_data.json: a paragraph with one of its labels
Raw(pid, sec, text, type, value) ==
  [paragraph_id |-> pid, legislation_id |-> 1, section |-> sec, heading |-> "",
   paragraph |-> text, jurisdiction |-> "Federal", act_name |-> "Fisheries Act",
   legislation_name |-> "Fisheries Act", label_type |-> type, label_value |-> value]

RawUniverse ==
  { Raw(1, "5", "spawning habitat", "Management Domain", "Fisheries"),
    Raw(1, "5", "spawning habitat", "Management Domain", "Pollution"),
    Raw(1, "5", "spawning habitat", "Clause Type", "Regulatory"),
    Raw(2, "", "effluent discharge", "", ""),
    Raw(2, "", "effluent discharge", "Management Domain", "Fisheries") }

\* paragraphMap: one entry per paragraph id in order of first occurrence,
\* with the fields of the first record and the labels of all its records
paragraphMap(records) ==
  LET ids == Distinct([i \in 1..Len(records) |-> records[i].paragraph_id])
  IN  [k \in 1..Len(ids) |->
         LET Mine(r) == r.paragraph_id = ids[k]
             mine == SelectSeq(records, Mine)
         IN  [paragraph_id |-> ids[k], section |-> mine[1].section,
              heading |-> mine[1].heading, paragraph |-> mine[1].paragraph,
              jurisdiction |-> mine[1].jurisdiction, act_name |-> mine[1].act_name,
              legislation_name |-> mine[1].legislation_name,
              labels |-> [i \in 1..Len(mine) |->
                            [label_type |-> mine[i].label_type,
                             label_value |-> mine[i].label_value]]]]

\* the records the paragraphMap.forEach body pushes for one paragraph
OutputRowsOf(para) ==
  LET IsDomain(l) == l.label_type = "Management Domain"
      IsClause(l) == l.label_type = "Clause Type"
      Truthy(v) == v # ""
      domainLabels == SelectSeq(para.labels, IsDomain)
      clauseLabels == SelectSeq(para.labels, IsClause)
      managementDomains ==
        Distinct(SelectSeq([i \in 1..Len(domainLabels) |-> domainLabels[i].label_value], Truthy))
      clauseTypes ==
        Distinct(SelectSeq([i \in 1..Len(clauseLabels) |-> clauseLabels[i].label_value], Truthy))
      domains == IF Len(managementDomains) > 0 THEN managementDomains ELSE <<"">>
  IN  [i \in 1..Len(domains) |->
         [jurisdiction |-> para.jurisdiction,
          act_name |-> para.act_name,
          legislation_name |-> para.legislation_name,
          section |-> para.section,
          heading |-> para.heading,
          aggregate_paragraph |-> para.paragraph,
          management_domain |-> domains[i],
          clause_type |-> clauseTypes]]

\* outputData: the records of all paragraphs, ids from idCounter
outputData(records) ==
  LET paras == paragraphMap(records)
      rows == Flatten([k \in 1..Len(paras) |-> OutputRowsOf(paras[k])])
  IN  [i \in 1..Len(rows) |-> [id |-> ToString(i)] @@ rows[i]]

-----------------------------------------------------------------------------
(* Filter engine: filteredData of App.tsx *)

DefaultFilters ==
  [jurisdiction |-> All, managementDomain |-> All, searchTerm |-> "",
   actName |-> All, legislationName |-> All, clauseType |-> All,
   actionableType |-> All, responsibleOfficial |-> All, discretionType |-> All]

\* values.some(v => v.toLowerCase() === selected.toLowerCase()) over a split field
FieldHas(field, selected) ==
  \E v \in Range(SplitTrim(field)) : ToLowerCase(v) = ToLowerCase(selected)

\* faulty variant: the Act-only constraint is applied when no act is selected
TypeMatchInverted(item, f) ==
  IF f.legislationName # All THEN TRUE
  ELSE IF f.actName = All THEN item.legislation_type = "Act"
  ELSE TRUE

\* the type constraint of the first pass
typeMatch(item, f) ==
  IF f.legislationName # All THEN TRUE
  ELSE IF f.actName # All THEN item.legislation_type = "Act"
  ELSE TRUE

\* faulty variant: the first pass without the type constraint
BasePassAnyType(item, f) ==
  /\ f.jurisdiction = All \/ item.jurisdiction = f.jurisdiction
  /\ f.actName = All \/ item.act_name = f.actName
  /\ f.legislationName = All \/ item.legislation_name = f.legislationName

\* first pass: jurisdiction, act, regulation and the type constraint
BasePass(item, f) ==
  /\ f.jurisdiction = All \/ item.jurisdiction = f.jurisdiction
  /\ f.actName = All \/ item.act_name = f.actName
  /\ f.legislationName = All \/ item.legislation_name = f.legislationName
  /\ typeMatch(item, f)

base(d, f) == LET Pass(item) == BasePass(item, f) IN SelectSeq(d, Pass)

\* faulty variant: the trimmed heading is tried before the synthetic key
SectionKeyHeadingFallback(item) ==
  LET sectionKey == IF item.section # "" /\ Trim(item.section) # ""
                      THEN Trim(item.section)
                      ELSE IF item.heading # "" /\ Trim(item.heading) # ""
                        THEN Trim(item.heading)
                        ELSE "para-" \o ToString(item.paragraph_id)
  IN  ToString(item.legislation_id) \o "|" \o sectionKey

\* `${legislation_id}|${sectionKey}` with the synthetic per-paragraph fallback
SectionKey(item) ==
  LET sectionKey == IF item.section # "" /\ Trim(item.section) # ""
                      THEN Trim(item.section)
                      ELSE "para-" \o ToString(item.paragraph_id)
  IN  ToString(item.legislation_id) \o "|" \o sectionKey

\* the Map of groups, in insertion order of the keys
GroupKeys(items) == Distinct([i \in 1..Len(items) |-> SectionKey(items[i])])

\* faulty variant: groups.set(key, [item]) replaces the group instead of pushing to it
GroupsKeepLast(items) ==
  LET keys == GroupKeys(items)
  IN  [k \in 1..Len(keys) |->
         LET InGroup(item) == SectionKey(item) = keys[k]
             g == SelectSeq(items, InGroup)
         IN  <<g[Len(g)]>>]

groups(items) ==
  LET keys == GroupKeys(items)
  IN  [k \in 1..Len(keys) |->
         LET InGroup(item) == SectionKey(item) = keys[k] IN SelectSeq(items, InGroup)]

\* faulty variant: the trimmed heading is tried before the synthetic key
ListSectionKeyHeadingFallback(item) ==
  LET sectionKey == IF item.section # "" /\ Trim(item.section) # ""
                      THEN Trim(item.section)
                      ELSE IF item.heading # "" /\ Trim(item.heading) # ""
                        THEN Trim(item.heading)
                        ELSE "para-" \o ToString(item.paragraph_id)
  IN  ToString(item.legislation_id) \o "|" \o sectionKey

\* the key of groupedItems in LegislationList: section only, not the heading
listSectionKey(item) ==
  LET sectionKey == IF item.section # "" /\ Trim(item.section) # ""
                      THEN Trim(item.section)
                      ELSE "para-" \o ToString(item.paragraph_id)
  IN  ToString(item.legislation_id) \o "|" \o sectionKey

\* the grouping in groupedItems of LegislationList
listGroups(items) ==
  LET keys == Distinct([i \in 1..Len(items) |-> listSectionKey(items[i])])
  IN  [k \in 1..Len(keys) |->
         LET InGroup(item) == listSectionKey(item) = keys[k] IN SelectSeq(items, InGroup)]

term(f) == Trim(ToLowerCase(f.searchTerm))

haystack(item) ==
  Sym(ToLowerCase(item.act_name)) \o <<" ">> \o Sym(ToLowerCase(item.legislation_name))
    \o <<" ">> \o Sym(ToLowerCase(item.heading)) \o <<" ">> \o Sym(ToLowerCase(item.paragraph))

\* faulty variant: 'All' is compared like a value, a term is required when typed
ItemMatchesNoDefault(item, f) ==
  /\ FieldHas(item.management_domain, f.managementDomain)
  /\ f.searchTerm = "" \/ (term(f) # "" /\ Includes(haystack(item), Sym(term(f))))
  /\ FieldHas(item.clause_type, f.clauseType)
  /\ FieldHas(item.actionable_type, f.actionableType)
  /\ FieldHas(item.responsible_official, f.responsibleOfficial)
  /\ FieldHas(item.discretion_type, f.discretionType)

\* the callback of group.some: one item against all section-scoped predicates
ItemMatches(item, f) ==
  /\ f.managementDomain = All \/ FieldHas(item.management_domain, f.managementDomain)
  /\ term(f) = "" \/ Includes(haystack(item), Sym(term(f)))
  /\ f.clauseType = All \/ FieldHas(item.clause_type, f.clauseType)
  /\ f.actionableType = All \/ FieldHas(item.actionable_type, f.actionableType)
  /\ f.responsibleOfficial = All \/ FieldHas(item.responsible_official, f.responsibleOfficial)
  /\ f.discretionType = All \/ FieldHas(item.discretion_type, f.discretionType)

\* faulty variant: every predicate is satisfied by some row of the group,
\* not necessarily by the same row
HasMatchPerPredicate(group, f) ==
  LET Some(field, selected) ==
        selected = All \/ \E i \in 1..Len(group) : FieldHas(group[i][field], selected)
  IN  /\ Some("management_domain", f.managementDomain)
      /\ term(f) = "" \/ \E i \in 1..Len(group) : Includes(haystack(group[i]), Sym(term(f)))
      /\ Some("clause_type", f.clauseType)
      /\ Some("actionable_type", f.actionableType)
      /\ Some("responsible_official", f.responsibleOfficial)
      /\ Some("discretion_type", f.discretionType)

hasMatchingItem(group, f) == \E i \in 1..Len(group) : ItemMatches(group[i], f)

\* faulty variant: row-level inclusion, only the matching rows are pushed
GroupResultMatchingRows(group, f) ==
  LET M(item) == ItemMatches(item, f) IN SelectSeq(group, M)

\* if (hasMatchingItem) results.push(...group)
GroupResult(group, f) == IF hasMatchingItem(group, f) THEN group ELSE <<>>

filteredDataOf(d, f) ==
  LET gs == groups(base(d, f))
  IN  Flatten([k \in 1..Len(gs) |-> GroupResult(gs[k], f)])

filteredData == filteredDataOf(data, filters)

-----------------------------------------------------------------------------
(* Contextual filter options *)

\* the order of a.localeCompare(b) on the option names of the model
Collation ==
  << "discharge", "duty", "Duty", "enabling", "Enabling", "fisheries", "Fisheries",
     "Fisheries Act", "Fishery Regulations", "mandatory", "Mandatory", "MANDATORY",
     "minister", "Minister", "pollution", "Pollution", "regulatory", "Regulatory",
     "Water Act" >>

CollationRank(name) ==
  IF name \in Range(Collation) THEN CHOOSE i \in 1..Len(Collation) : Collation[i] = name
  ELSE 0

LocaleLess(a, b) == CollationRank(a) < CollationRank(b)

Entry(v, w) == [v |-> v, w |-> w]

RECURSIVE SumWeights(_)
SumWeights(entries) ==
  IF entries = <<>> THEN 0 ELSE Head(entries).w + SumWeights(Tail(entries))

\* counts.set(t, (counts.get(t) || 0) + w): the Map in insertion order
TallyExact(entries) ==
  LET names == Distinct([i \in 1..Len(entries) |-> entries[i].v])
  IN  [k \in 1..Len(names) |->
         LET Same(e) == e.v = names[k]
         IN  [name |-> names[k], count |-> SumWeights(SelectSeq(entries, Same))]]

\* canonical = normalized.get(lower) || t: the first casing seen
Canonical(entries, v) ==
  LET first == CHOOSE i \in 1..Len(entries) :
                 /\ ToLowerCase(entries[i].v) = ToLowerCase(v)
                 /\ \A j \in 1..(i - 1) : ToLowerCase(entries[j].v) # ToLowerCase(v)
  IN  entries[first].v

\* the Map keyed by the lower-cased value, named by the first casing seen
TallyNormalized(entries) ==
  LET names == Distinct([i \in 1..Len(entries) |-> Canonical(entries, entries[i].v)])
  IN  [k \in 1..Len(names) |->
         LET Same(e) == ToLowerCase(e.v) = ToLowerCase(names[k])
         IN  [name |-> names[k], count |-> SumWeights(SelectSeq(entries, Same))]]

\* the split values of a field over the context rows, each counted once
FieldEntries(context, field) ==
  Flatten([i \in 1..Len(context) |->
             LET vs == SplitTrim(context[i][field])
             IN  [j \in 1..Len(vs) |-> Entry(vs[j], 1)]])

\* the values of an unsplit name column, empty names left out
NameEntries(context, field) ==
  LET Named(item) == item[field] # ""
      named == SelectSeq(context, Named)
  IN  [i \in 1..Len(named) |-> Entry(named[i][field], 1)]

OptLess(a, b) == LocaleLess(a.name, b.name)

\* faulty variant: the count of 'All' is the number of occurrences
WithAllTotal(tally) ==
  LET total == SumWeights([i \in 1..Len(tally) |-> Entry(tally[i].name, tally[i].count)])
  IN  <<[name |-> All, count |-> total]>> \o SortSeq(tally, OptLess)

\* [{ name: 'All', count: unique.length }, ...unique sorted by name]
WithAll(tally) ==
  <<[name |-> All, count |-> Len(tally)]>> \o SortSeq(tally, OptLess)

DomainMatch(item, f) ==
  f.managementDomain = All \/ FieldHas(item.management_domain, f.managementDomain)
JurisdictionMatch(item, f) == f.jurisdiction = All \/ item.jurisdiction = f.jurisdiction
ActMatch(item, f) == f.actName = All \/ item.act_name = f.actName
LegMatch(item, f) == f.legislationName = All \/ item.legislation_name = f.legislationName

isRegulation(item) ==
  LET type == ToLowerCase(item.legislation_type)
  IN  type # "act" /\ type # ""

ActsContext(d, f) ==
  LET C(item) == DomainMatch(item, f) /\ JurisdictionMatch(item, f) IN SelectSeq(d, C)

LegislationContext(d, f) ==
  LET C(item) == /\ DomainMatch(item, f) /\ JurisdictionMatch(item, f)
                 /\ ActMatch(item, f) /\ isRegulation(item)
  IN  SelectSeq(d, C)

ClauseContext(d, f) ==
  LET C(item) == /\ DomainMatch(item, f) /\ JurisdictionMatch(item, f)
                 /\ ActMatch(item, f) /\ LegMatch(item, f)
  IN  SelectSeq(d, C)

DomainsContext(d, f) ==
  LET C(item) == JurisdictionMatch(item, f) /\ ActMatch(item, f) /\ LegMatch(item, f)
  IN  SelectSeq(d, C)

availableActsOf(d, f) ==
  WithAll(TallyExact(NameEntries(ActsContext(d, f), "act_name")))

availableLegislationOf(d, f) ==
  WithAll(TallyExact(NameEntries(LegislationContext(d, f), "legislation_name")))

availableClauseTypesOf(d, f) ==
  WithAll(TallyExact(FieldEntries(ClauseContext(d, f), "clause_type")))

availableActionableTypesOf(d, f) ==
  WithAll(TallyNormalized(FieldEntries(ClauseContext(d, f), "actionable_type")))

availableResponsibleOfficialsOf(d, f) ==
  WithAll(TallyNormalized(FieldEntries(ClauseContext(d, f), "responsible_official")))

availableDiscretionTypesOf(d, f) ==
  WithAll(TallyNormalized(FieldEntries(ClauseContext(d, f), "discretion_type")))

\* every domain of a row is counted with the number of keywords of the row
DomainEntries(context) ==
  Flatten([i \in 1..Len(context) |->
             LET ds == SplitTrim(context[i].management_domain)
                 keywords == SplitTrim(context[i].mgmt_d_keyword)
             IN  [j \in 1..Len(ds) |-> Entry(ds[j], Len(keywords))]])

DomainLess(a, b) ==
  IF a.count # b.count THEN a.count > b.count ELSE LocaleLess(a.name, b.name)

availableDomainsOf(d, f) ==
  SortSeq(TallyNormalized(DomainEntries(DomainsContext(d, f))), DomainLess)

availableActs == availableActsOf(data, filters)
availableLegislation == availableLegislationOf(data, filters)
availableClauseTypes == availableClauseTypesOf(data, filters)
availableActionableTypes == availableActionableTypesOf(data, filters)
availableResponsibleOfficials == availableResponsibleOfficialsOf(data, filters)
availableDiscretionTypes == availableDiscretionTypesOf(data, filters)
availableDomains == availableDomainsOf(data, filters)

Names(options) == {options[i].name : i \in 1..Len(options)}

-----------------------------------------------------------------------------
(* Keyword scope resolver *)

\* faulty variant: a domain without dictionary keywords resolves to no keyword
FilterKeywordsScopedOnly(allKeywords, paragraphText, targetDomain, cache) ==
  IF targetDomain = "" \/ targetDomain = All \/ ~cache.loaded
    THEN SplitTrim(allKeywords)
    ELSE LET key == ToLowerCase(targetDomain)
             isGovernanceDomain == key \in DOMAIN cache.map /\ Len(cache.map[key]) > 0
             lowerText == ToLowerCase(paragraphText)
             Hit(k) == RegexTest(k, lowerText)
         IN  IF ~isGovernanceDomain THEN <<>>
             ELSE SelectSeq(cache.map[key], Hit)

filterKeywordsByDomain(allKeywords, paragraphText, targetDomain, cache) ==
  IF targetDomain = "" \/ targetDomain = All \/ ~cache.loaded
    THEN SplitTrim(allKeywords)
    ELSE LET key == ToLowerCase(targetDomain)
             isGovernanceDomain == key \in DOMAIN cache.map /\ Len(cache.map[key]) > 0
             lowerText == ToLowerCase(paragraphText)
             Hit(k) == RegexTest(k, lowerText)
         IN  IF ~isGovernanceDomain THEN SplitTrim(allKeywords)
             ELSE SelectSeq(cache.map[key], Hit)

-----------------------------------------------------------------------------
(* Section aggregator: groupedItems of LegislationList.tsx *)

\* faulty variant: the members of a group stay in load order
SortedGroupUnsorted(group) == group

\* [...group].sort((a, b) => a.paragraph_id - b.paragraph_id), a stable sort:
\* a member goes after the members with a smaller id and after the earlier
\* members with the same id
sortedGroup(group) ==
  LET n == Len(group)
      Position(i) ==
        1 + Cardinality({j \in 1..n :
                           \/ group[j].paragraph_id < group[i].paragraph_id
                           \/ /\ group[j].paragraph_id = group[i].paragraph_id
                              /\ j < i})
  IN  [k \in 1..n |-> group[CHOOSE i \in 1..n : Position(i) = k]]

\* Array.prototype.join on strings
RECURSIVE JoinWith(_, _)
JoinWith(strings, sep) ==
  IF strings = <<>> THEN ""
  ELSE IF Len(strings) = 1 THEN strings[1]
  ELSE strings[1] \o sep \o JoinWith(Tail(strings), sep)

\* uniqueHeadings.join(' | '), or the heading of the first member
displayHeading(sorted) ==
  LET NonEmpty(h) == h # ""
      present == SelectSeq([i \in 1..Len(sorted) |-> sorted[i].heading], NonEmpty)
      headingCandidates == [i \in 1..Len(present) |-> Trim(present[i])]
      uniqueHeadings == Distinct(SelectSeq(headingCandidates, NonEmpty))
  IN  IF Len(uniqueHeadings) > 0 THEN JoinWith(uniqueHeadings, " | ")
      ELSE sorted[1].heading

\* Array.from(new Set(sortedGroup.flatMap(p => split, trim, non-empty)))
allValues(sorted, field) ==
  Distinct(Flatten([i \in 1..Len(sorted) |-> SplitTrim(sorted[i][field])]))

\* values.join(';') as a semicolon-encoded field
JoinSemicolon(values) == IF values = <<>> THEN <<"">> ELSE values

\* the fragments of an aggregated section, in the order of sortedGroup
paragraphBlocks(sorted) ==
  [i \in 1..Len(sorted) |->
     [heading |-> sorted[i].heading,
      text |-> sorted[i].paragraph,
      mgmt_d_keyword |-> sorted[i].mgmt_d_keyword,
      management_domain |-> sorted[i].management_domain,
      clause_type |-> sorted[i].clause_type,
      clause_type_keyword |-> sorted[i].clause_type_keyword]]

\* faulty variant: the aggregated record loses the section label of its members
AggregatedItemNoSection(group) ==
  LET sorted == sortedGroup(group)
      NonBlank(p) == p # "" /\ Trim(p) # ""
      bodies == SelectSeq([i \in 1..Len(sorted) |-> sorted[i].paragraph], NonBlank)
  IN  [paragraphBlocks |-> paragraphBlocks(sorted)] @@
      [sorted[1] EXCEPT
         !.section = "",
         !.heading = displayHeading(sorted),
         !.management_domain = JoinSemicolon(allValues(sorted, "management_domain")),
         !.mgmt_d_keyword = JoinSemicolonBlank(allValues(sorted, "mgmt_d_keyword")),
         !.clause_type = JoinSemicolon(allValues(sorted, "clause_type")),
         !.discretion_type = JoinSemicolon(allValues(sorted, "discretion_type")),
         !.paragraph = JoinWith(bodies, "\n\n")]

\* { ...sortedGroup[0], merged attributes, paragraph, paragraphBlocks }
aggregatedItem(group) ==
  LET sorted == sortedGroup(group)
      NonBlank(p) == p # "" /\ Trim(p) # ""
      bodies == SelectSeq([i \in 1..Len(sorted) |-> sorted[i].paragraph], NonBlank)
  IN  [paragraphBlocks |-> paragraphBlocks(sorted)] @@
      [sorted[1] EXCEPT
         !.heading = displayHeading(sorted),
         !.management_domain = JoinSemicolon(allValues(sorted, "management_domain")),
         !.mgmt_d_keyword = JoinSemicolonBlank(allValues(sorted, "mgmt_d_keyword")),
         !.clause_type = JoinSemicolon(allValues(sorted, "clause_type")),
         !.discretion_type = JoinSemicolon(allValues(sorted, "discretion_type")),
         !.paragraph = JoinWith(bodies, "\n\n")]

groupedArray(items) ==
  LET gs == listGroups(items) IN [k \in 1..Len(gs) |-> aggregatedItem(gs[k])]

\* the key of groupedItems in the earlier list component: section, else heading
legacyListSectionKey(item) ==
  LET sectionKey == IF item.section # "" /\ Trim(item.section) # ""
                      THEN Trim(item.section)
                      ELSE IF item.heading # "" /\ Trim(item.heading) # ""
                        THEN Trim(item.heading)
                        ELSE "para-" \o ToString(item.paragraph_id)
  IN  ToString(item.legislation_id) \o "|" \o sectionKey

\* groupedItems of the earlier list component: heading, paragraph and
\* paragraphBlocks are aggregated, the other fields are those of the first member
legacyGroupedItems(items) ==
  LET keys == Distinct([i \in 1..Len(items) |-> legacyListSectionKey(items[i])])
      NonBlank(p) == p # "" /\ Trim(p) # ""
  IN  [k \in 1..Len(keys) |->
         LET InGroup(item) == legacyListSectionKey(item) = keys[k]
             sorted == sortedGroup(SelectSeq(items, InGroup))
             bodies == SelectSeq([i \in 1..Len(sorted) |-> sorted[i].paragraph], NonBlank)
         IN  [paragraphBlocks |->
                [i \in 1..Len(sorted) |->
                   [heading |-> sorted[i].heading, text |-> sorted[i].paragraph]]] @@
             [sorted[1] EXCEPT !.heading = displayHeading(sorted),
                               !.paragraph = JoinWith(bodies, "\n\n")]]

\* the purely numeric section labels of the corpus, with their parseFloat
NumericSections == ("5" :> 5) @@ ("6" :> 6)

parseSectionForSort(section) ==
  IF section = "" THEN [isNumeric |-> FALSE, value |-> ""]
  ELSE IF Trim(section) \in DOMAIN NumericSections
    THEN [isNumeric |-> TRUE, value |-> NumericSections[Trim(section)]]
    ELSE [isNumeric |-> FALSE, value |-> Trim(section)]

\* the comparator of groupedArray.sort is negative
SectionBefore(a, b) ==
  LET aParsed == parseSectionForSort(a.section)
      bParsed == parseSectionForSort(b.section)
  IN  IF aParsed.isNumeric /\ bParsed.isNumeric THEN aParsed.value < bParsed.value
      ELSE IF aParsed.isNumeric THEN TRUE
      ELSE IF bParsed.isNumeric THEN FALSE
      ELSE LocaleLess(aParsed.value, bParsed.value)

RECURSIVE sortBySection(_)
sortBySection(items) ==
  IF items = <<>> THEN <<>>
  ELSE LET init == sortBySection(SubSeq(items, 1, Len(items) - 1))
           last == items[Len(items)]
           NotAfter(x) == ~SectionBefore(last, x)
           After(x) == SectionBefore(last, x)
       IN  SelectSeq(init, NotAfter) \o <<last>> \o SelectSeq(init, After)

\* the sections of one legislation with the number of their keywords
legislationGroups(aggregated) ==
  LET ids == Distinct([i \in 1..Len(aggregated) |-> aggregated[i].legislation_id])
  IN  [k \in 1..Len(ids) |->
         LET Mine(item) == item.legislation_id = ids[k]
             mine == SelectSeq(aggregated, Mine)
         IN  [items |-> mine,
              count |-> SumWeights([i \in 1..Len(mine) |->
                          [v |-> "", w |-> Len(SplitTrim(mine[i].mgmt_d_keyword))]])]]

\* .sort((a, b) => b[1].count - a[1].count), a stable sort
RECURSIVE sortedLegislations(_)
sortedLegislations(lgs) ==
  IF lgs = <<>> THEN <<>>
  ELSE LET init == sortedLegislations(SubSeq(lgs, 1, Len(lgs) - 1))
           last == lgs[Len(lgs)]
           NotAfter(x) == x.count >= last.count
           After(x) == x.count < last.count
       IN  SelectSeq(init, NotAfter) \o <<last>> \o SelectSeq(init, After)

\* the memo groupedItems of the list component
groupedItemsOf(items, activeDomain, selectedActName, selectedLegislationName) ==
  LET isDomainOnlySelected ==
        activeDomain # All /\ selectedActName = All /\ selectedLegislationName = All
      sorted == sortedLegislations(legislationGroups(groupedArray(items)))
  IN  IF isDomainOnlySelected
        THEN Flatten([k \in 1..Len(sorted) |-> sorted[k].items])
        ELSE sortBySection(groupedArray(items))

\* <LegislationList items={filteredData} activeDomain={filters.managementDomain} ... />
groupedItems ==
  groupedItemsOf(filteredData, filters.managementDomain, filters.actName,
                 filters.legislationName)

\* the pattern-meaningful characters that occur in the texts of the model
MetaSyms == {"(", ")"}

\* .replace(/[.*+?^${}()|[\]\\]/g, '\\$&') on the symbols of a keyword
escapeRegExp(syms) ==
  [i \in 1..Len(syms) |-> IF syms[i] \in MetaSyms THEN "\\" \o syms[i] ELSE syms[i]]

\* the groups of a pattern source are closed in the order they are opened
RECURSIVE Balanced(_, _)
Balanced(source, depth) ==
  IF source = <<>> THEN depth = 0
  ELSE IF Head(source) = "(" THEN Balanced(Tail(source), depth + 1)
  ELSE IF Head(source) = ")" THEN depth > 0 /\ Balanced(Tail(source), depth - 1)
  ELSE Balanced(Tail(source), depth)

\* new RegExp(source) returns; it throws a SyntaxError otherwise
Compiles(source) == Balanced(source, 0)

\* Highlight compiles `(${term})` from the term as typed and throws if that fails
HighlightThrows(text, typed) ==
  /\ typed # ""
  /\ text # ""
  /\ ~Compiles(<<"(">> \o Sym(ToLowerCase(typed)) \o <<")">>)

\* KeywordHighlight compiles `\\b(${pattern})\\b` from the escaped keywords
KeywordHighlightThrows(text, keywords) ==
  LET NonBlank(k) == k # "" /\ Trim(k) # ""
      kept == SelectSeq(keywords, NonBlank)
      pattern == Flatten([i \in 1..Len(kept) |->
                   (IF i = 1 THEN <<>> ELSE <<"|">>)
                     \o escapeRegExp(Sym(ToLowerCase(kept[i])))])
  IN  /\ keywords # <<>>
      /\ text # ""
      /\ pattern # <<>>
      /\ ~Compiles(<<"\\b", "(">> \o pattern \o <<")", "\\b">>)

getLegislationDisplayName(item) ==
  LET isAct == Includes(Sym(ToLowerCase(item.legislation_type)), <<"act">>)
  IN  IF ~isAct /\ item.legislation_name # "" /\ Trim(item.legislation_name) # ""
        THEN item.legislation_name
      ELSE IF item.act_name # "" /\ Trim(item.act_name) # "" THEN item.act_name
      ELSE item.legislation_name

\* what rendering the list component results in for the props the App passes
renderList(items, f, cache) ==
  LET searchTerm == f.searchTerm
      activeDomain == f.managementDomain
      noFiltersSelected ==
        activeDomain = All /\ f.actName = All /\ f.legislationName = All /\ searchTerm = ""
      shouldHighlightKeywords == activeDomain # "" /\ activeDomain # All
      showHeadingAsTitle == f.actName # All \/ f.legislationName # All
      sections == groupedItemsOf(items, activeDomain, f.actName, f.legislationName)
      HeadingThrows(item) ==
        IF shouldHighlightKeywords
          THEN KeywordHighlightThrows(item.heading,
                 filterKeywordsByDomain(item.mgmt_d_keyword,
                   IF item.paragraph # "" THEN item.paragraph ELSE item.heading,
                   activeDomain, cache))
          ELSE HighlightThrows(item.heading, searchTerm)
      TitleThrows(item) ==
        IF showHeadingAsTitle THEN HeadingThrows(item)
        ELSE HighlightThrows(getLegislationDisplayName(item), searchTerm)
               \/ HeadingThrows(item)
      BlockThrows(block) ==
        LET paraText == IF block.text # "" THEN block.text ELSE "Text summary unavailable"
            domainMatch == activeDomain = All \/ block.management_domain = <<activeDomain>>
            blockKeywords ==
              IF domainMatch
                THEN filterKeywordsByDomain(block.mgmt_d_keyword, paraText, activeDomain, cache)
                ELSE <<>>
            clauseMatch == f.clauseType # All /\ FieldHas(block.clause_type, f.clauseType)
            clauseKeywords == IF clauseMatch THEN SplitTrim(block.clause_type_keyword) ELSE <<>>
        IN  IF shouldHighlightKeywords /\ blockKeywords # <<>> /\ clauseKeywords # <<>>
              THEN FALSE
            ELSE IF shouldHighlightKeywords /\ blockKeywords # <<>>
              THEN KeywordHighlightThrows(paraText, blockKeywords)
            ELSE IF clauseKeywords # <<>> THEN FALSE
            ELSE HighlightThrows(paraText, searchTerm)
  IN  IF noFiltersSelected THEN "placeholder"
      ELSE IF sections = <<>> THEN "no matches"
      ELSE IF \E item \in Range(sections) :
                \/ TitleThrows(item)
                \/ \E block \in Range(item.paragraphBlocks) : BlockThrows(block)
        THEN "SyntaxError"
      ELSE "rendered"

-----------------------------------------------------------------------------
(* State machine of the App component and the data service *)

NoCache == [cached |-> FALSE, rows |-> <<>>]
NoGovernance == [loaded |-> FALSE, map |-> [k \in {} |-> <<>>]]
NoJoin == [kind |-> "none", rows |-> <<>>]
NoJson == [paragraphs |-> <<>>, labels |-> <<>>]
NoKw == [called |-> FALSE, allKeywords |-> <<"">>, text |-> "", domain |-> "",
         loaded |-> FALSE, dictionary |-> <<>>, outcome |-> "", result |-> <<>>]

SearchTerms == {"", " ", "Spawning"}
Jurisdictions == {All, "Federal", "Provincial"}
\* MANAGEMENT_DOMAINS, the domains of the corpus among them
ManagementDomains == {All, "Fisheries", "Pollution"}

\* the keys whose change resets the filters downstream of them
Upstream == {"actName", "managementDomain", "jurisdiction"}

Keys == {"jurisdiction", "managementDomain", "actName", "legislationName",
         "clauseType", "actionableType", "responsibleOfficial", "discretionType"}

\* the values the controls of the page offer for a filter key
Offered(key, d, f) ==
  CASE key = "jurisdiction" -> Jurisdictions
    [] key = "managementDomain" ->
         {All} \cup (IF Len(availableDomainsOf(d, f)) > 0
                       THEN Names(availableDomainsOf(d, f)) ELSE ManagementDomains)
    [] key = "actName" -> Names(availableActsOf(d, f))
    [] key = "legislationName" -> Names(availableLegislationOf(d, f))
    [] key = "clauseType" -> Names(availableClauseTypesOf(d, f))
    [] key = "actionableType" -> Names(availableActionableTypesOf(d, f))
    [] key = "responsibleOfficial" -> Names(availableResponsibleOfficialsOf(d, f))
    [] key = "discretionType" -> Names(availableDiscretionTypesOf(d, f))

\* faulty variant: only the regulation is reset when the domain or jurisdiction changes
FilterChangeShallow(prev, key, value) ==
  LET set == [prev EXCEPT ![key] = value]
  IN  IF key \in {"actName", "managementDomain", "jurisdiction"}
        THEN [set EXCEPT !.legislationName = All]
        ELSE set

\* the updater handleFilterChange passes to setFilters
FilterChange(prev, key, value) ==
  LET set == [prev EXCEPT ![key] = value]
      act == IF key = "actName" THEN [set EXCEPT !.legislationName = All] ELSE set
  IN  IF key = "managementDomain" \/ key = "jurisdiction"
        THEN [act EXCEPT !.actName = All, !.legislationName = All]
        ELSE act

\* the number of narrowed dimensions, a pending search term included
ActiveCount(f, typed) ==
  Cardinality({k \in Keys : f[k] # All})
    + (IF f.searchTerm # "" \/ typed # "" THEN 1 ELSE 0)

Ready == ~isLoading /\ error = NULL

ServiceVars == <<paragraphRows, legislationRows, governanceKeywordRows, warnings, dataCache, governanceKeywordCache>>
AppVars == <<data, isLoading, error, filters, localSearchTerm, timer, lastOp>>
AuxVars == <<joined, jsonInput, rawData, kw, calls>>

\* loadLegislationData when the four tables have been fetched
FetchAndJoin(paras, legs, govs) ==
  /\ paragraphRows' = paras
  /\ legislationRows' = legs
  /\ governanceKeywordRows' = govs
  /\ governanceKeywordCache' = [loaded |-> TRUE, map |-> GovernanceKeywordMap(govs)]
  /\ warnings' = JoinWarnings(paras, legs)
  /\ dataCache' = [cached |-> TRUE,
                   rows |-> joinedData(paras, legs, GovernanceKeywordMap(govs))]

Init ==
  /\ paragraphRows = <<>>
  /\ legislationRows = <<>>
  /\ governanceKeywordRows = <<>>
  /\ warnings = <<>>
  /\ dataCache = NoCache
  /\ governanceKeywordCache = NoGovernance
  /\ data = <<>>
  /\ isLoading = TRUE
  /\ error = NULL
  /\ filters = DefaultFilters
  /\ localSearchTerm = ""
  /\ timer = [pending |-> TRUE, term |-> ""]
  /\ lastOp = ""
  /\ joined = NoJoin
  /\ jsonInput = NoJson
  /\ rawData = <<>>
  /\ kw = NoKw
  /\ calls = [list |-> <<>>, cacheFrom |-> 0, govFrom |-> 0]

\* loadData: the awaited loadLegislationData resolves
LoadResolve ==
  /\ isLoading
  /\ IF dataCache.cached
       THEN UNCHANGED ServiceVars
       ELSE \E paras \in ParagraphTables : FetchAndJoin(paras, LegislationTable, GovernanceTable)
  /\ data' = dataCache'.rows
  /\ error' = NULL
  /\ isLoading' = FALSE
  /\ lastOp' = lastOp
  /\ UNCHANGED <<filters, localSearchTerm, timer>>
  /\ UNCHANGED AuxVars

\* faulty variant: the cache is assigned before the fetch has succeeded
LoadRejectCached ==
  /\ isLoading
  /\ ~dataCache.cached
  /\ error' = "DATA_NOT_FOUND"
  /\ isLoading' = FALSE
  /\ lastOp' = ""
  /\ dataCache' = [cached |-> TRUE, rows |-> <<>>]
  /\ UNCHANGED <<data, filters, localSearchTerm, timer>>
  /\ UNCHANGED <<paragraphRows, legislationRows, governanceKeywordRows, warnings,
                 governanceKeywordCache>>
  /\ UNCHANGED AuxVars

\* loadData: a fetch fails and loadLegislationData rejects
LoadReject ==
  /\ isLoading
  /\ ~dataCache.cached
  /\ error' = "DATA_NOT_FOUND"
  /\ isLoading' = FALSE
  /\ lastOp' = ""
  /\ UNCHANGED <<data, filters, localSearchTerm, timer>>
  /\ UNCHANGED ServiceVars
  /\ UNCHANGED AuxVars

\* the Retry button of the error screen calls loadData again
Retry ==
  /\ ~isLoading
  /\ error # NULL
  /\ isLoading' = TRUE
  /\ error' = NULL
  /\ lastOp' = "retry"
  /\ UNCHANGED <<data, filters, localSearchTerm, timer>>
  /\ UNCHANGED ServiceVars
  /\ UNCHANGED AuxVars

\* faulty variant: a change of the domain or the jurisdiction resets nothing
HandleFilterChangeActOnly(key, value) ==
  /\ Ready
  /\ ActiveCount(FilterChange(filters, key, value), localSearchTerm) <= MaxActive
  /\ filters' = IF key = "actName"
                  THEN [filters EXCEPT ![key] = value, !.legislationName = All]
                  ELSE [filters EXCEPT ![key] = value]
  /\ lastOp' = (IF key \in Upstream THEN key ELSE "")
  /\ UNCHANGED <<data, isLoading, error, localSearchTerm, timer>>
  /\ UNCHANGED ServiceVars
  /\ UNCHANGED AuxVars

\* handleFilterChange(key, value); the value is one the control of the key offers
HandleFilterChange(key, value) ==
  /\ Ready
  /\ ActiveCount(FilterChange(filters, key, value), localSearchTerm) <= MaxActive
  /\ filters' = FilterChange(filters, key, value)
  /\ lastOp' = (IF key \in Upstream THEN key ELSE "")
  /\ UNCHANGED <<data, isLoading, error, localSearchTerm, timer>>
  /\ UNCHANGED ServiceVars
  /\ UNCHANGED AuxVars

\* faulty variant: the pending timeout is not cleared, the earlier term stays armed
SetLocalSearchTermNoCancel(value) ==
  /\ Ready
  /\ value # localSearchTerm
  /\ ActiveCount(filters, value) <= MaxActive
  /\ localSearchTerm' = value
  /\ timer' = IF timer.pending THEN timer ELSE [pending |-> TRUE, term |-> value]
  /\ lastOp' = ""
  /\ UNCHANGED <<data, isLoading, error, filters>>
  /\ UNCHANGED ServiceVars
  /\ UNCHANGED AuxVars

\* typing in the search box: setLocalSearchTerm, and the effect re-arms the timer
SetLocalSearchTerm(value) ==
  /\ Ready
  /\ value # localSearchTerm
  /\ ActiveCount(filters, value) <= MaxActive
  /\ localSearchTerm' = value
  /\ timer' = [pending |-> TRUE, term |-> value]
  /\ lastOp' = ""
  /\ UNCHANGED <<data, isLoading, error, filters>>
  /\ UNCHANGED ServiceVars
  /\ UNCHANGED AuxVars

\* the 300 ms timeout fires: setFilters(prev => ({ ...prev, searchTerm }))
TimerFires ==
  /\ timer.pending
  /\ filters' = [filters EXCEPT !.searchTerm = timer.term]
  /\ timer' = [timer EXCEPT !.pending = FALSE]
  /\ lastOp' = ""
  /\ UNCHANGED <<data, isLoading, error, localSearchTerm>>
  /\ UNCHANGED ServiceVars
  /\ UNCHANGED AuxVars

\* faulty variant: the timeout armed for the typed term survives the reset
ResetFiltersKeepTimer ==
  /\ Ready
  /\ filters' = DefaultFilters
  /\ localSearchTerm' = ""
  /\ timer' = timer
  /\ lastOp' = "reset"
  /\ UNCHANGED <<data, isLoading, error>>
  /\ UNCHANGED ServiceVars
  /\ UNCHANGED AuxVars

\* resetFilters: setFilters(defaults) and setLocalSearchTerm(''); the effect
\* re-arms the timer if the typed term has changed
ResetFilters ==
  /\ Ready
  /\ filters' = DefaultFilters
  /\ localSearchTerm' = ""
  /\ timer' = IF localSearchTerm # "" THEN [pending |-> TRUE, term |-> ""] ELSE timer
  /\ lastOp' = "reset"
  /\ UNCHANGED <<data, isLoading, error>>
  /\ UNCHANGED ServiceVars
  /\ UNCHANGED AuxVars

Next ==
  \/ LoadResolve
  \/ LoadReject
  \/ Retry
  \/ \E key \in Keys : \E value \in Offered(key, data, filters) : HandleFilterChange(key, value)
  \/ \E value \in SearchTerms : SetLocalSearchTerm(value)
  \/ TimerFires
  \/ ResetFilters

Spec == Init /\ [][Next]_vars

-----------------------------------------------------------------------------
(* The list component rendered by the App, over tables in any row order *)

\* paragraph_output.csv with its rows in any order
ListTables ==
  UNION {{q \in TablesOf(ListCorpus, n) : Cardinality({q[i] : i \in 1..n}) = n} :
           n \in 1..MaxParas}

ListSearchTerms == {"", "Spawning", "(habitat"}
ListKeys == {"managementDomain", "actName"}

\* loadData resolves with the rows joined from one of the tables
ListLoad ==
  /\ isLoading
  /\ ~dataCache.cached
  /\ \E paras \in ListTables : FetchAndJoin(paras, LegislationTable, GovernanceTable)
  /\ data' = dataCache'.rows
  /\ error' = NULL
  /\ isLoading' = FALSE
  /\ lastOp' = lastOp
  /\ UNCHANGED <<filters, localSearchTerm, timer>>
  /\ UNCHANGED AuxVars

NextList ==
  \/ ListLoad
  \/ \E key \in ListKeys : \E value \in Offered(key, data, filters) :
        HandleFilterChange(key, value)
  \/ \E value \in ListSearchTerms : SetLocalSearchTerm(value)
  \/ TimerFires

SpecList == Init /\ [][NextList]_vars

-----------------------------------------------------------------------------
(* The selections of the controls on their own: no search term is typed *)

NextSelect ==
  \/ LoadResolve
  \/ \E key \in Keys : \E value \in Offered(key, data, filters) : HandleFilterChange(key, value)
  \/ ResetFilters

SpecSelect == Init /\ [][NextSelect]_vars

-----------------------------------------------------------------------------
(* The search box, its debounce timer and the reset, with the timer scheduled *)

NextDebounce ==
  \/ ListLoad
  \/ \E value \in Offered("managementDomain", data, filters) :
        HandleFilterChange("managementDomain", value)
  \/ \E value \in SearchTerms : SetLocalSearchTerm(value)
  \/ TimerFires
  \/ ResetFilters

\* a timeout that stays armed with the same term for 300 ms runs its callback
SpecDebounce ==
  /\ Init
  /\ [][NextDebounce]_vars
  /\ \A value \in SearchTerms : WF_vars(timer.term = value /\ TimerFires)

-----------------------------------------------------------------------------
(* The join run on its own, on the CSV tables and on full_data.json *)

JoinCsv(paras) ==
  /\ joined.kind = "none"
  /\ FetchAndJoin(paras, LegislationTable, GovernanceTable)
  /\ joined' = [kind |-> "csv", rows |-> dataCache'.rows]
  /\ UNCHANGED <<jsonInput, rawData, kw, calls>>
  /\ UNCHANGED AppVars

JoinJson(labels) ==
  /\ joined.kind = "none"
  /\ jsonInput' = [paragraphs |-> JsonParagraphs, labels |-> labels]
  /\ joined' = [kind |-> "json",
                rows |-> LegacyJoinedData(JsonParagraphs, labels, LegislationTable)]
  /\ UNCHANGED <<rawData, kw, calls>>
  /\ UNCHANGED ServiceVars
  /\ UNCHANGED AppVars

\* a run of scripts/generate-optimized-json.js over the flat records
JoinScript(records) ==
  /\ joined.kind = "none"
  /\ rawData' = records
  /\ joined' = [kind |-> "script", rows |-> outputData(records)]
  /\ UNCHANGED <<jsonInput, kw, calls>>
  /\ UNCHANGED ServiceVars
  /\ UNCHANGED AppVars

NextJoin ==
  \/ \E paras \in ParagraphTables \cup OrphanTables : JoinCsv(paras)
  \/ \E labels \in SeqsUpTo(LabelUniverse, MaxLabels) : JoinJson(labels)
  \/ \E records \in SeqsUpTo(RawUniverse, MaxLabels) : JoinScript(records)

SpecJoin == Init /\ [][NextJoin]_vars

-----------------------------------------------------------------------------
(* The keyword scope resolver over a loaded governance dictionary *)

KwDomains == {"", All, "Fisheries", "fisheries", "Pollution"}
KwTexts == {"spawning habitat near effluent discharge", "respawn effluents", "Spawning"}
KwStrings == {<<"spawning", " effluent">>, <<"habitat near", " ", " Spawn">>}

ServiceLoad(govs) ==
  /\ ~dataCache.cached
  /\ FetchAndJoin(<<Corpus[1]>>, LegislationTable, govs)
  /\ kw' = NoKw
  /\ UNCHANGED <<joined, jsonInput, rawData, calls>>
  /\ UNCHANGED AppVars

\* the calls that are suspended at the await of the four fetches
Fetching == {i \in 1..Len(calls.list) : calls.list[i].phase = "fetching"}

\* clearCache: both caches are set to null.  It returns at once; the calls
\* suspended at that moment are marked, their fetch started before it.
clearCache ==
  /\ dataCache.cached \/ Fetching # {}
  /\ dataCache' = NoCache
  /\ governanceKeywordCache' = NoGovernance
  /\ kw' = NoKw
  /\ calls' = [list |-> [i \in 1..Len(calls.list) |->
                           IF i \in Fetching THEN [calls.list[i] EXCEPT !.stale = TRUE]
                           ELSE calls.list[i]],
               cacheFrom |-> 0, govFrom |-> 0]
  /\ UNCHANGED <<paragraphRows, legislationRows, governanceKeywordRows, warnings>>
  /\ UNCHANGED <<joined, jsonInput, rawData>>
  /\ UNCHANGED AppVars

\* a call of filterKeywordsByDomain, before or after loadLegislationData; the
\* function has no throw and compiles escaped patterns only, so it always returns
CallFilterKeywords(allKeywords, text, domain) ==
  /\ kw' = [called |-> TRUE, allKeywords |-> allKeywords, text |-> text, domain |-> domain,
            loaded |-> governanceKeywordCache.loaded,
            dictionary |-> IF governanceKeywordCache.loaded
                             THEN governanceKeywordRows ELSE <<>>,
            outcome |-> "returned",
            result |-> filterKeywordsByDomain(allKeywords, text, domain,
                                              governanceKeywordCache)]
  /\ UNCHANGED <<joined, jsonInput, rawData, calls>>
  /\ UNCHANGED ServiceVars
  /\ UNCHANGED AppVars

NextKw ==
  \/ \E govs \in GovernanceTables : ServiceLoad(govs)
  \/ clearCache
  \/ \E a \in KwStrings, t \in KwTexts, d \in KwDomains : CallFilterKeywords(a, t, d)

SpecKw == Init /\ [][NextKw]_vars

-----------------------------------------------------------------------------
(* loadLegislationData suspended at its fetches, with clearCache and the    *)
(* loadData of the App in between                                           *)

\* loadLegislationData up to its first suspension: the cached rows are
\* returned, or the four fetches are started.  A call is recorded with who
\* made it, where it stands, whether clearCache has returned since its fetch
\* started, the call whose fetch produced the rows it resolved with, and the
\* file whose load failed.
Invoke(owner) ==
  [calls EXCEPT !.list =
     Append(@, [owner |-> owner,
                phase |-> IF dataCache.cached THEN "resolved" ELSE "fetching",
                stale |-> FALSE,
                from |-> IF dataCache.cached THEN calls.cacheFrom ELSE 0,
                failed |-> ""])]

AppCalls == {i \in 1..Len(calls.list) : calls.list[i].owner = "app"}

\* loadData of the App, run by the mount effect and by the Retry button
loadData ==
  /\ Len(calls.list) < MaxCalls
  /\ \/ isLoading /\ AppCalls = {}
     \/ ~isLoading /\ error # NULL
  /\ calls' = Invoke("app")
  /\ error' = NULL
  /\ isLoading' = ~dataCache.cached
  /\ data' = IF dataCache.cached THEN dataCache.rows ELSE data
  /\ lastOp' = ""
  /\ UNCHANGED <<filters, localSearchTerm, timer>>
  /\ UNCHANGED ServiceVars
  /\ UNCHANGED <<joined, jsonInput, rawData, kw>>

\* loadLegislationData called by another user of the service
loadLegislationData ==
  /\ Len(calls.list) < MaxCalls
  /\ calls' = Invoke("other")
  /\ UNCHANGED ServiceVars
  /\ UNCHANGED AppVars
  /\ UNCHANGED <<joined, jsonInput, rawData, kw>>

\* the four fetches of call i are fulfilled: the rest of loadLegislationData
\* runs, and the rest of loadData if the App made the call
TablesFetched(i, paras) ==
  /\ i \in Fetching
  /\ FetchAndJoin(paras, LegislationTable, GovernanceTable)
  /\ calls' = [list |-> [calls.list EXCEPT ![i].phase = "resolved", ![i].from = i],
               cacheFrom |-> i, govFrom |-> i]
  /\ IF calls.list[i].owner = "app"
       THEN data' = dataCache'.rows /\ error' = NULL /\ isLoading' = FALSE
       ELSE UNCHANGED <<data, error, isLoading>>
  /\ UNCHANGED <<filters, localSearchTerm, timer, lastOp>>
  /\ UNCHANGED <<joined, jsonInput, rawData, kw>>

\* faulty variant: the governance dictionary is cached although a load failed
TableLoadFailsHalfCached(i, table) ==
  /\ i \in Fetching
  /\ calls' = [calls EXCEPT !.list[i].phase = "rejected", !.list[i].failed = table,
                            !.govFrom = i]
  /\ governanceKeywordCache' = [loaded |-> TRUE, map |-> GovernanceKeywordMap(GovernanceTable)]
  /\ IF calls.list[i].owner = "app"
       THEN error' = "DATA_NOT_FOUND" /\ isLoading' = FALSE
       ELSE UNCHANGED <<error, isLoading>>
  /\ UNCHANGED <<data, filters, localSearchTerm, timer, lastOp>>
  /\ UNCHANGED <<paragraphRows, legislationRows, governanceKeywordRows, warnings, dataCache>>
  /\ UNCHANGED <<joined, jsonInput, rawData, kw>>

\* parseCSV of one file rejects (fetch fails, the response is not ok, or the
\* parser reports an error): Promise.all rejects and the await of call i
\* throws; loadData catches it if the App made the call
TableLoadFails(i, table) ==
  /\ i \in Fetching
  /\ calls' = [calls EXCEPT !.list[i].phase = "rejected", !.list[i].failed = table]
  /\ IF calls.list[i].owner = "app"
       THEN error' = "DATA_NOT_FOUND" /\ isLoading' = FALSE
       ELSE UNCHANGED <<error, isLoading>>
  /\ UNCHANGED <<data, filters, localSearchTerm, timer, lastOp>>
  /\ UNCHANGED ServiceVars
  /\ UNCHANGED <<joined, jsonInput, rawData, kw>>

NextLoad ==
  \/ loadData
  \/ loadLegislationData
  \/ \E i \in 1..MaxCalls, paras \in {<<Corpus[1]>>, <<Corpus[2]>>} : TablesFetched(i, paras)
  \/ \E i \in 1..MaxCalls,
        table \in {"paragraph_output.csv", "legislation_output.csv",
                   "iucn_l2_keywords.csv", "governance_keywords.csv"} :
        TableLoadFails(i, table)
  \/ clearCache

SpecLoad == Init /\ [][NextLoad]_vars

-----------------------------------------------------------------------------
(* Properties *)

InSeq(x, s) == \E i \in 1..Len(s) : s[i] = x

\* C1: section-level promotion.  If one row of a section group of the
\* first-pass survivors satisfies all of the domain, search and clause
\* predicates, every row of that group is in filteredData.
SectionPromotion ==
  LET b == base(data, filters)
  IN  \A i, j \in 1..Len(b) :
        (SectionKey(b[i]) = SectionKey(b[j]) /\ ItemMatches(b[i], filters))
          => InSeq(b[j], filteredData)

\* a group of two or more rows is returned whole although one of its rows
\* fails the selected domain
WitnessSectionPromotion ==
  LET b == base(data, filters)
  IN  /\ filters.managementDomain # All
      /\ \E i, j \in 1..Len(b) :
           /\ i # j
           /\ SectionKey(b[i]) = SectionKey(b[j])
           /\ ItemMatches(b[i], filters)
           /\ ~ItemMatches(b[j], filters)
           /\ InSeq(b[j], filteredData)

\* the values a filter key can be narrowed to
NarrowValues(key) ==
  CASE key = "jurisdiction" -> {"Federal", "Provincial"}
    [] key = "managementDomain" -> {"Fisheries", "fisheries", "Pollution"}
    [] key = "actName" -> {"Fisheries Act", "Water Act"}
    [] key = "legislationName" -> {"Fishery Regulations", "Fisheries Act", "Water Act"}
    [] key = "clauseType" -> {"Regulatory", "regulatory", "Enabling"}
    [] key = "actionableType" -> {"Duty", "duty"}
    [] key = "responsibleOfficial" -> {"Minister", "minister"}
    [] key = "discretionType" -> {"Mandatory", "mandatory", "MANDATORY"}
    [] key = "searchTerm" -> {" ", "Spawning", "Fisheries Act"}

\* f narrowed on the one predicate key, which is 'All' (or empty) in f
IsOpen(f, key) == IF key = "searchTerm" THEN f[key] = "" ELSE f[key] = All

Narrowed(f, key) == {[f EXCEPT ![key] = v] : v \in NarrowValues(key)}

RowsOf(d, f) == Range(filteredDataOf(d, f))

\* C2 (as claimed): narrowing any single predicate, the regulation under a
\* selected act included, never adds rows.
MonotoneFiltering ==
  LET wide == RowsOf(data, filters)
  IN  \A key \in Keys \cup {"searchTerm"} :
        IsOpen(filters, key) =>
          \A f2 \in Narrowed(filters, key) : RowsOf(data, f2) \subseteq wide

\* C2 (amended): narrowing a single predicate never adds rows, except when
\* the regulation is narrowed while an act is selected.
MonotoneExceptRegulationUnderAct ==
  LET wide == RowsOf(data, filters)
  IN  \A key \in Keys \cup {"searchTerm"} :
        (IsOpen(filters, key) /\ ~(key = "legislationName" /\ filters.actName # All)) =>
          \A f2 \in Narrowed(filters, key) : RowsOf(data, f2) \subseteq wide

\* a narrowing that removes some but not all rows
WitnessMonotone ==
  \E key \in Keys \cup {"searchTerm"} :
    /\ IsOpen(filters, key)
    /\ ~(key = "legislationName" /\ filters.actName # All)
    /\ \E f2 \in Narrowed(filters, key) :
         /\ RowsOf(data, f2) # {}
         /\ RowsOf(data, f2) # RowsOf(data, filters)

\* C3: cascading reset.  After handleFilterChange on actName the regulation
\* is 'All'; after handleFilterChange on managementDomain or jurisdiction
\* the act and the regulation are 'All'.
CascadingReset ==
  /\ lastOp = "actName" => filters.legislationName = All
  /\ lastOp \in {"managementDomain", "jurisdiction"} =>
       filters.actName = All /\ filters.legislationName = All

\* the jurisdiction has just been changed to a specific value
WitnessCascadingReset ==
  /\ lastOp = "jurisdiction"
  /\ filters.jurisdiction # All
  /\ filters.clauseType # All

\* the number of places of the groups that hold the row x
Occurrences(x, gs) ==
  Cardinality(UNION {{<<k, j>> : j \in {n \in 1..Len(gs[k]) : gs[k][n] = x}} :
                       k \in 1..Len(gs)})

PartitionOf(gs, items) ==
  /\ Len(Flatten(gs)) = Len(items)
  /\ \A i \in 1..Len(items) : Occurrences(items[i], gs) = 1

\* C4: grouping partitions.  The section groups of a list of rows hold every
\* row of the list exactly once, in the filter and in the list component.
GroupingPartitions ==
  /\ PartitionOf(groups(base(data, filters)), base(data, filters))
  /\ PartitionOf(listGroups(filteredData), filteredData)
  /\ PartitionOf(listGroups(data), data)

\* a group of two rows whose section labels differ in blanks only
WitnessGroupingPartitions ==
  LET gs == groups(base(data, filters))
  IN  \E k \in 1..Len(gs) :
        /\ Len(gs[k]) = 2
        /\ gs[k][1].section # gs[k][2].section

\* the fan-out of one paragraph with the distinct domains doms over the rows
\* at the positions mine, rowDomains being the domain of every row
FanOut(rowDomains, mine, doms) ==
  IF doms # {}
    THEN /\ Cardinality(mine) = Cardinality(doms)
         /\ {rowDomains[i] : i \in mine} = doms
    ELSE /\ Cardinality(mine) = 1
         /\ \A i \in mine : rowDomains[i] = ""

\* the positions of the rows a join made of the CSV paragraph p
CsvRowsOf(p) ==
  {i \in 1..Len(joined.rows) :
     /\ joined.rows[i].paragraph_id = ParseInt(p.paragraph_id)
     /\ joined.rows[i].paragraph = p.paragraph}

\* the positions of the rows a join made of the paragraph with that text and section
JsonRowsOf(p) ==
  {i \in 1..Len(joined.rows) :
     /\ joined.rows[i].aggregate_paragraph = p.paragraph
     /\ joined.rows[i].section = p.section}

CsvDomain(row) ==
  IF Len(SplitTrim(row.management_domain)) = 1 THEN SplitTrim(row.management_domain)[1]
  ELSE IF SplitTrim(row.management_domain) = <<>> THEN ""
  ELSE "<several>"

CsvFanOut ==
  \A p \in Range(paragraphRows) :
    LegislationMapHas(legislationRows, p.legislation_id) =>
      FanOut([i \in 1..Len(joined.rows) |-> CsvDomain(joined.rows[i])], CsvRowsOf(p),
             Range(SplitTrim(p.management_domain)))

JsonDomainsOf(p) ==
  {l.value : l \in {m \in Range(jsonInput.labels) :
                      m.pid = p.pid /\ m.type = "Management Domain" /\ m.value # ""}}

JsonRowDomains == [i \in 1..Len(joined.rows) |-> joined.rows[i].management_domain]

\* the distinct domains the flat records give a paragraph
RawDomainsOf(pid) ==
  {r.label_value : r \in {q \in Range(rawData) :
                             /\ q.paragraph_id = pid
                             /\ q.label_type = "Management Domain"
                             /\ q.label_value # ""}}

ScriptFanOut ==
  \A p \in Range(rawData) : FanOut(JsonRowDomains, JsonRowsOf(p), RawDomainsOf(p.paragraph_id))

JsonFanOut ==
  \A p \in Range(jsonInput.paragraphs) :
    LegislationMapHas(LegislationTable, p.legislation_id) =>
      FanOut(JsonRowDomains, JsonRowsOf(p), JsonDomainsOf(p))

\* C5 (as claimed): in every join a paragraph with k >= 1 distinct domains
\* yields k rows with one domain each, and a paragraph without domain one
\* row with an empty domain.
FanOutEveryJoin ==
  /\ joined.kind = "csv" => CsvFanOut
  /\ joined.kind = "json" => JsonFanOut
  /\ joined.kind = "script" => ScriptFanOut

\* C5 (amended): the two joins of full_data.json (the earlier loadData and
\* the aggregation script) fan a paragraph out into one row per distinct
\* domain, with the body text of the paragraph; loadLegislationData yields
\* exactly one row per paragraph, which keeps the semicolon-encoded domain
\* field of the paragraph.
FanOutJsonOneRowCsv ==
  /\ joined.kind = "json" => JsonFanOut
  /\ joined.kind = "script" => ScriptFanOut
  /\ joined.kind = "csv" =>
       /\ Len(joined.rows) = Len(paragraphRows)
       /\ \A i \in 1..Len(paragraphRows) :
            /\ joined.rows[i].paragraph_id = ParseInt(paragraphRows[i].paragraph_id)
            /\ joined.rows[i].paragraph = paragraphRows[i].paragraph
            /\ joined.rows[i].management_domain = paragraphRows[i].management_domain

\* full_data.json labels one paragraph twice with one domain and once with another
WitnessFanOut ==
  /\ joined.kind = "json"
  /\ \E p \in Range(jsonInput.paragraphs) :
       /\ Cardinality(JsonDomainsOf(p)) = 2
       /\ Len(jsonInput.labels) = 3
       /\ \A l \in Range(jsonInput.labels) : l.pid = p.pid /\ l.type = "Management Domain"
       /\ Cardinality(JsonRowsOf(p)) = 2

\* C6 (as claimed): a paragraph without legislation record yields no joined
\* row and a diagnostic, and the other paragraphs are joined.
OrphanParagraphSkipped ==
  joined.kind = "csv" =>
    \A p \in Range(paragraphRows) :
      IF LegislationMapHas(legislationRows, p.legislation_id)
        THEN CsvRowsOf(p) # {}
        ELSE CsvRowsOf(p) = {} /\ InSeq(p.paragraph_id, warnings)

\* the computed option list of every dimension
OptionLists ==
  [actName |-> availableActs, legislationName |-> availableLegislation,
   clauseType |-> availableClauseTypes, actionableType |-> availableActionableTypes,
   responsibleOfficial |-> availableResponsibleOfficials,
   discretionType |-> availableDiscretionTypes, managementDomain |-> availableDomains]

\* C7 (as claimed): no zero-result choice.  Choosing any option other than
\* 'All' that is offered for a dimension yields a non-empty filteredData.
NoZeroResultChoice ==
  Ready =>
    \A key \in DOMAIN OptionLists :
      \A v \in Names(OptionLists[key]) \ {All} :
        filteredDataOf(data, FilterChange(filters, key, v)) # <<>>

\* an option list opens with its only 'All' entry, which counts the other names
AllEntryFirst(options) ==
  LET list == options
  IN  /\ Len(list) >= 1
      /\ list[1].name = All
      /\ Cardinality({i \in 1..Len(list) : list[i].name = All}) = 1
      /\ list[1].count = Cardinality(Names(list) \ {All})

OccurrencesIgnoringCase(context, field, name) ==
  Cardinality(UNION {{<<i, j>> : j \in {n \in 1..Len(SplitTrim(context[i][field])) :
                                           ToLowerCase(SplitTrim(context[i][field])[n])
                                             = ToLowerCase(name)}} :
                       i \in 1..Len(context)})

MergedIgnoringCase(options, context, field) ==
  /\ \A i, j \in 1..Len(options) :
       i # j => ToLowerCase(options[i].name) # ToLowerCase(options[j].name)
  /\ \A i \in 2..Len(options) :
       options[i].count = OccurrencesIgnoringCase(context, field, options[i].name)

\* C9 (as claimed): in every split dimension the values that differ only in
\* case are one option, counted with all their occurrences.
CaseInsensitiveDedup ==
  LET context == ClauseContext(data, filters)
  IN  Ready =>
        /\ MergedIgnoringCase(availableClauseTypes, context, "clause_type")
        /\ MergedIgnoringCase(availableActionableTypes, context, "actionable_type")
        /\ MergedIgnoringCase(availableResponsibleOfficials, context, "responsible_official")
        /\ MergedIgnoringCase(availableDiscretionTypes, context, "discretion_type")

\* the words and blanks of a sequence of symbols
RECURSIVE Tokens(_)
Tokens(s) ==
  IF s = <<>> THEN <<>>
  ELSE LET rest == Tokens(Tail(s))
       IN  IF IsWordSym(Head(s)) /\ rest # <<>> /\ IsWordSym(Head(rest)[1])
             THEN <<(<<Head(s)>> \o Head(rest))>> \o Tail(rest)
             ELSE <<(<<Head(s)>>)>> \o rest

\* the keyword is made of whole words of the text, ignoring case
OccursAsWholeWord(keyword, text) ==
  Includes(Tokens(Sym(ToLowerCase(text))), Tokens(Sym(ToLowerCase(keyword))))

DictionaryKeywords(dictionary, domain) ==
  {r.keyword : r \in {q \in Range(dictionary) :
                        ToLowerCase(q.management_domain) = ToLowerCase(domain)}}

\* C10: domain-scoped keyword resolution.  For a target domain with keywords
\* in the governance dictionary the result is exactly the keywords of that
\* domain that occur as a whole word in the text.
DomainScopedKeywords ==
  (kw.called /\ DictionaryKeywords(kw.dictionary, kw.domain) # {}) =>
    Range(kw.result) =
      {k \in DictionaryKeywords(kw.dictionary, kw.domain) : OccursAsWholeWord(k, kw.text)}

\* the text holds a keyword of the target domain as a whole word, another
\* keyword of that domain inside a longer word only, and a keyword of another domain
WitnessDomainScopedKeywords ==
  /\ kw.called
  /\ kw.domain = "Fisheries"
  /\ kw.text = "spawning habitat near effluent discharge"
  /\ DictionaryKeywords(kw.dictionary, "Fisheries") = {"spawning", "Spawn"}
  /\ DictionaryKeywords(kw.dictionary, "Pollution") = {"effluent"}
  /\ kw.result = <<"spawning">>

\* C11 (as claimed): the resolver narrows its input.  Every keyword returned
\* by filterKeywordsByDomain is a keyword of the input keyword string.
ResolverNarrowsInput ==
  kw.called => Range(kw.result) \subseteq Range(SplitTrim(kw.allKeywords))

\* the keywords of a semicolon-encoded string: trimmed, the empty ones left out
RECURSIVE KeywordsOf(_)
KeywordsOf(field) ==
  IF field = <<>> THEN <<>>
  ELSE (IF Trim(Head(field)) = "" THEN <<>> ELSE <<Trim(Head(field))>>)
         \o KeywordsOf(Tail(field))

\* C12: pass-through.  When the target domain is unset, 'All' or without
\* keywords in the governance dictionary, filterKeywordsByDomain returns all
\* keywords of the input string, trimmed, without the empty ones, in input order.
ResolverPassThrough ==
  (kw.called /\ (kw.domain \in {"", All}
                   \/ DictionaryKeywords(kw.dictionary, kw.domain) = {})) =>
    kw.result = KeywordsOf(kw.allKeywords)

\* a loaded dictionary that has keywords, none of them for the target domain,
\* and an input string with a blank entry and an entry to trim
WitnessResolverPassThrough ==
  /\ kw.called
  /\ kw.domain = "Pollution"
  /\ kw.dictionary # <<>>
  /\ DictionaryKeywords(kw.dictionary, "Pollution") = {}
  /\ kw.allKeywords = <<"habitat near", " ", " Spawn">>
  /\ kw.result = <<"habitat near", "Spawn">>

\* C13: type constraint of the first filter step.  With a legislation
\* selected only rows of that legislation pass, whatever their type; otherwise
\* with an act selected only rows of that act whose legislation_type is 'Act'
\* pass; otherwise rows of every legislation type pass.
TypeConstraint ==
  LET passed == Range(base(data, filters))
      Jurisdiction(r) == filters.jurisdiction = All \/ r.jurisdiction = filters.jurisdiction
  IN  \A r \in Range(data) :
        IF filters.legislationName # All
          THEN r \in passed <=>
                 /\ Jurisdiction(r)
                 /\ r.legislation_name = filters.legislationName
                 /\ filters.actName = All \/ r.act_name = filters.actName
        ELSE IF filters.actName # All
          THEN r \in passed <=>
                 /\ Jurisdiction(r)
                 /\ r.act_name = filters.actName
                 /\ r.legislation_type = "Act"
        ELSE r \in passed <=> Jurisdiction(r)

\* an act is selected and no legislation: the row of the act passes, the row of
\* a regulation under that act does not
WitnessTypeConstraint ==
  /\ filters.actName # All
  /\ filters.legislationName = All
  /\ \E r \in Range(base(data, filters)) : r.legislation_type = "Act"
  /\ \E r \in Range(data) :
        /\ r.act_name = filters.actName
        /\ r.legislation_type # "Act"
        /\ r \notin Range(base(data, filters))

\* C15: a group of the first-pass survivors in which no single row satisfies
\* all active section-scoped predicates together is excluded from filteredData,
\* also when each predicate is satisfied by some row of the group.
SingleMemberMatchesAll ==
  LET gs == groups(base(data, filters))
      result == Range(filteredData)
  IN  \A k \in 1..Len(gs) :
        (\A i \in 1..Len(gs[k]) : ~ItemMatches(gs[k][i], filters)) =>
          \A i \in 1..Len(gs[k]) : gs[k][i] \notin result

\* a group of two rows: one has the selected domain, the other the selected
\* clause type, none has both, and the group is not in the result
WitnessSingleMemberMatchesAll ==
  /\ filters.managementDomain # All
  /\ filters.clauseType # All
  /\ \E g \in Range(groups(base(data, filters))) :
        /\ Len(g) = 2
        /\ \E i, j \in 1..2 :
              /\ i # j
              /\ FieldHas(g[i].management_domain, filters.managementDomain)
              /\ ~FieldHas(g[i].clause_type, filters.clauseType)
              /\ FieldHas(g[j].clause_type, filters.clauseType)
              /\ ~FieldHas(g[j].management_domain, filters.managementDomain)
        /\ \A i \in 1..2 : g[i] \notin Range(filteredData)

\* the label a row is grouped under: the trimmed section, or the paragraph id
LabelBySection(r) ==
  IF Trim(r.section) # "" THEN <<"section", Trim(r.section)>>
  ELSE <<"paragraph", r.paragraph_id>>

\* the same with the trimmed heading tried before the paragraph id
LabelByHeading(r) ==
  IF Trim(r.section) # "" THEN <<"section", Trim(r.section)>>
  ELSE IF Trim(r.heading) # "" THEN <<"heading", Trim(r.heading)>>
  ELSE <<"paragraph", r.paragraph_id>>

\* C14 (as claimed): two rows have the same group key exactly when they have
\* the same legislation_id and the same trimmed section label, or without
\* section the same trimmed heading, or without both the same paragraph id;
\* the filter engine and the section aggregator use the same key.
SectionKeyWithHeading ==
  \A r1, r2 \in Range(data) :
    /\ SectionKey(r1) = listSectionKey(r1)
    /\ SectionKey(r1) = SectionKey(r2) <=>
          /\ r1.legislation_id = r2.legislation_id
          /\ LabelByHeading(r1) = LabelByHeading(r2)

\* C14 (amended): two rows have the same group key exactly when they have the
\* same legislation_id and the same trimmed section label, or without section
\* the same paragraph id; the heading is not part of the key, and the filter
\* engine and the section aggregator of the list use the same key.
SectionKeyDerivation ==
  \A r1, r2 \in Range(data) :
    /\ SectionKey(r1) = listSectionKey(r1)
    /\ SectionKey(r1) = SectionKey(r2) <=>
          /\ r1.legislation_id = r2.legislation_id
          /\ LabelBySection(r1) = LabelBySection(r2)

\* rows with a blank section and a heading next to rows keyed by their section
\* label: two rows without section share a key although their headings differ
WitnessSectionKeyDerivation ==
  \E r1, r2 \in Range(data) :
    /\ r1 # r2
    /\ Trim(r1.section) = "" /\ Trim(r2.section) = ""
    /\ Trim(r1.heading) # "" /\ r1.heading # r2.heading
    /\ SectionKey(r1) = SectionKey(r2)
    /\ listSectionKey(r1) = listSectionKey(r2)

MisuseFailsLoudly ==
  (kw.called /\ ~kw.loaded) => kw.outcome = "assertion"

\* the rows of the list's items that are aggregated into the section a
MembersOf(a) ==
  LET Mine(item) == listSectionKey(item) = listSectionKey(a)
  IN  SelectSeq(filteredData, Mine)

\* the orders in which n members can be arranged
Arrangements(n) ==
  {p \in [1..n -> 1..n] : \A i, j \in 1..n : p[i] = p[j] => i = j}

\* C19: within every aggregated section the fragments, paragraphBlocks and
\* the concatenated body, are in ascending order of paragraph id, and fragments
\* with equal paragraph id keep their relative load order.
FragmentsOrdered ==
  \A a \in Range(groupedItems) :
    LET g == MembersOf(a)
        n == Len(g)
    IN  /\ Len(a.paragraphBlocks) = n
        /\ \E p \in Arrangements(n) :
              LET NonBlank(t) == Trim(t) # ""
              IN  /\ \A i \in 1..n :
                       /\ a.paragraphBlocks[i].text = g[p[i]].paragraph
                       /\ a.paragraphBlocks[i].heading = g[p[i]].heading
                  /\ \A i, j \in 1..n :
                       i < j =>
                         \/ g[p[i]].paragraph_id < g[p[j]].paragraph_id
                         \/ /\ g[p[i]].paragraph_id = g[p[j]].paragraph_id
                            /\ p[i] < p[j]
                  /\ a.paragraph =
                       JoinWith(SelectSeq([i \in 1..n |-> g[p[i]].paragraph], NonBlank),
                                "\n\n")

\* a section whose members are loaded in descending order of paragraph id and
\* aggregated in ascending order
WitnessFragmentsOrdered ==
  \E a \in Range(groupedItems) :
    LET g == MembersOf(a)
    IN  /\ Len(g) = 2
        /\ g[1].paragraph_id > g[2].paragraph_id
        /\ a.paragraphBlocks[1].text = g[2].paragraph
        /\ a.paragraphBlocks[2].text = g[1].paragraph
        /\ a.paragraph = g[2].paragraph \o "\n\n" \o g[1].paragraph

MergedFields == {"management_domain", "mgmt_d_keyword", "clause_type", "discretion_type"}

\* C20 (as claimed): the domains, keywords, clause types and discretion types
\* of an aggregated section are each the union of the split values of its
\* members without duplicates that differ in case only, every value in the
\* casing seen first.
MergeIgnoringCase ==
  \A a \in Range(groupedItems) : \A field \in MergedFields :
    LET g == sortedGroup(MembersOf(a))
        seen == Flatten([i \in 1..Len(g) |-> SplitTrim(g[i][field])])
        merged == SplitTrim(a[field])
    IN  /\ \A i, j \in 1..Len(merged) :
              ToLowerCase(merged[i]) = ToLowerCase(merged[j]) => i = j
        /\ {ToLowerCase(v) : v \in Range(merged)} = {ToLowerCase(v) : v \in Range(seen)}
        /\ \A v \in Range(merged) :
              \E i \in 1..Len(seen) :
                /\ seen[i] = v
                /\ \A j \in 1..(i - 1) : ToLowerCase(seen[j]) # ToLowerCase(v)

\* C18 (as claimed): patterns are escaped before they are compiled and a
\* matcher that does not compile counts as no match, so that rendering the
\* list with its highlights never ends in an exception, whatever characters the
\* search term and the keywords contain.
NoPatternException ==
  renderList(filteredData, filters, governanceKeywordCache) # "SyntaxError"

\* the keys of a sequence of records under the key of the current list
\* component and under the key of the earlier one
ListKeysOf(items) == {listSectionKey(items[i]) : i \in 1..Len(items)}
LegacyKeysOf(items) == {legacyListSectionKey(items[i]) : i \in 1..Len(items)}

\* C21: aggregation is idempotent key-wise.  The aggregated records fed back
\* into the section aggregator give one group per record, under the same
\* (legislation_id, section-key) keys: no groups are merged or split.
AggregationIdempotent ==
  LET first == groupedItems
      again == groupedItemsOf(first, filters.managementDomain, filters.actName,
                              filters.legislationName)
      legacyFirst == legacyGroupedItems(filteredData)
      legacyAgain == legacyGroupedItems(legacyFirst)
  IN  /\ Len(again) = Len(first)
      /\ Cardinality(ListKeysOf(first)) = Len(first)
      /\ ListKeysOf(again) = ListKeysOf(first)
      /\ ListKeysOf(first) = ListKeysOf(filteredData)
      /\ \A k \in 1..Len(again) : Len(again[k].paragraphBlocks) = 1
      /\ Len(legacyAgain) = Len(legacyFirst)
      /\ Cardinality(LegacyKeysOf(legacyFirst)) = Len(legacyFirst)
      /\ LegacyKeysOf(legacyAgain) = LegacyKeysOf(legacyFirst)
      /\ LegacyKeysOf(legacyFirst) = LegacyKeysOf(filteredData)

\* two sections of one legislation, or one section aggregated from two rows
\* whose labels differ in blanks, have been aggregated and aggregated again
WitnessAggregationIdempotent ==
  /\ \/ Len(groupedItems) = 2
     \/ \E a \in Range(groupedItems) : Len(a.paragraphBlocks) = 2
  /\ Len(groupedArray(groupedItems)) = Len(groupedItems)

\* the filter state with the dimensions in open released
Released(open) ==
  [k \in DOMAIN filters |->
     IF k \notin open THEN filters[k] ELSE IF k = "searchTerm" THEN "" ELSE All]

\* the rows that pass every active predicate but those of the dimensions in
\* open: the rows of the sections shown, and the rows that match on their own
SectionRowsPassingOthers(open) == RowsOf(data, Released(open))
RowsPassingOthers(open) ==
  {r \in Range(data) : BasePass(r, Released(open)) /\ ItemMatches(r, Released(open))}

\* the values of a semicolon-encoded field over a set of rows
FieldValues(rows, field) == UNION {Range(SplitTrim(r[field])) : r \in rows}

LowerNames(names) == {ToLowerCase(n) : n \in names}

\* the value sets the rows passing the other predicates give for a field,
\* under either reading of "the rows that pass"
Readings(open, field) ==
  {FieldValues(SectionRowsPassingOthers(open), field), FieldValues(RowsPassingOthers(open), field)}

\* C22: the options of a dimension are computed from exactly the rows that
\* pass every other active predicate, the search term and the other clause
\* selections included, leaving out only the dimension itself and the
\* dimensions downstream of it.  "The rows that pass" is read either way (the
\* rows of the sections shown, or the rows that match on their own), and so is
\* "downstream" for the domain (act and regulation released, or kept).
ContextualOptions ==
  Ready =>
    /\ Names(availableClauseTypes) \ {All} \in Readings({"clauseType"}, "clause_type")
    /\ LowerNames(Names(availableDomains))
          \in {LowerNames(vs) :
                 vs \in Readings({"managementDomain", "actName", "legislationName"},
                                 "management_domain")
                          \cup Readings({"managementDomain"}, "management_domain")}
    /\ Names(availableActs) \ {All}
          \in {{r.act_name : r \in SectionRowsPassingOthers({"actName", "legislationName"})} \ {""},
               {r.act_name : r \in RowsPassingOthers({"actName", "legislationName"})} \ {""}}

\* a step of the debounce callback, taken with no change of the typed term
DebounceStep ==
  /\ timer.pending /\ ~timer'.pending
  /\ localSearchTerm' = localSearchTerm
  /\ filters' = [filters EXCEPT !.searchTerm = localSearchTerm]

\* a step of resetFilters
ResetStep == lastOp' = "reset" /\ filters' = DefaultFilters /\ localSearchTerm' = ""

AppliedOnlyByDebounceStep ==
  filters'.searchTerm # filters.searchTerm => DebounceStep

AppliedByDebounceOrReset ==
  filters'.searchTerm # filters.searchTerm => DebounceStep \/ ResetStep

\* if typing stops, the applied term becomes the typed one
TypedTermApplied ==
  \A value \in SearchTerms :
    (localSearchTerm = value) ~> (filters.searchTerm = value \/ localSearchTerm # value)

\* the statement as written: the applied search term changes only when the
\* debounce timeout has run
SearchDebounceOnly == [][AppliedOnlyByDebounceStep]_vars /\ TypedTermApplied

\* C23: filters.searchTerm changes only when the debounce timeout has run with
\* no further change of the typed term, and then becomes the last typed term
\* (a keystroke cancels the pending timeout, so no intermediate term of a
\* burst is applied), or when resetFilters sets it to '' at once; if typing
\* stops, the applied term eventually equals the last typed term.
SearchDebounce == [][AppliedByDebounceOrReset]_vars /\ TypedTermApplied

\* a burst of two terms has been typed and the last one has been applied
WitnessSearchDebounce ==
  /\ filters.searchTerm = "Spawning"
  /\ localSearchTerm = "Spawning"
  /\ ~timer.pending

\* call i, suspended at its fetches, is rejected in this step
Rejects(i) ==
  /\ i \in Fetching
  /\ calls'.list[i].phase = "rejected"
  /\ calls'.list[i].failed # ""

\* call i of the App, suspended at its fetches, is settled in this step
AppRunEnds(i) == i \in Fetching /\ i \in AppCalls /\ calls'.list[i].phase # "fetching"

FailedLoadLeavesNoTrace ==
  \A i \in 1..Len(calls.list) :
    /\ Rejects(i) =>
         /\ UNCHANGED <<paragraphRows, legislationRows, governanceKeywordRows, warnings>>
         /\ UNCHANGED <<dataCache, governanceKeywordCache>>
         /\ calls'.cacheFrom = calls.cacheFrom /\ calls'.govFrom = calls.govFrom
         /\ i \in AppCalls => error' = "DATA_NOT_FOUND" /\ ~isLoading' /\ data' = data
    /\ AppRunEnds(i) => ~isLoading'

\* the App is loading exactly while one of its runs of loadData is suspended
LoadingWhileSuspended ==
  isLoading <=> (AppCalls = {} \/ AppCalls \cap Fetching # {})

\* C24: if the load of any one of the four source tables fails,
\* loadLegislationData rejects without joining or caching anything, and
\* loadData of the App ends with error = 'DATA_NOT_FOUND', isLoading = false
\* and the data held before unchanged; every run of loadData ends with
\* isLoading = false.
LoadFailureHandling == [][FailedLoadLeavesNoTrace]_vars /\ []LoadingWhileSuspended

\* a run of loadData has failed on governance_keywords.csv while the caches
\* hold the rows another call has loaded
WitnessLoadFailureHandling ==
  \E i \in AppCalls :
    /\ calls.list[i].phase = "rejected"
    /\ calls.list[i].failed = "governance_keywords.csv"
    /\ error = "DATA_NOT_FOUND" /\ ~isLoading /\ data = <<>>
    /\ dataCache.cached /\ calls.cacheFrom # i

\* the calls that resolved with rows another call had fetched and cached
ServedFromCache ==
  {j \in 1..Len(calls.list) :
     calls.list[j].phase = "resolved" /\ calls.list[j].from # j}

\* C28: cache invalidation is not undone by a load in flight.  Under every
\* interleaving of loadLegislationData and clearCache, once clearCache has
\* returned no later call resolves with rows whose fetch started before that
\* clearCache, and dataCache and governanceKeywordCache always come from the
\* same load.
InvalidationNotUndone ==
  /\ \A j \in ServedFromCache : ~calls.list[calls.list[j].from].stale
  /\ dataCache.cached <=> governanceKeywordCache.loaded
  /\ calls.cacheFrom = calls.govFrom

\* every dimension is at 'All' and the search term is empty or blank
DefaultFilter == (\A key \in Keys : filters[key] = All) /\ Trim(filters.searchTerm) = ""

\* C25: identity of the default filter.  With every dimension at 'All' and an
\* empty or whitespace-only search term, filteredData contains every loaded
\* row exactly once.
DefaultFilterIdentity ==
  DefaultFilter =>
    /\ Len(filteredData) = Len(data)
    /\ \A i \in 1..Len(data) :
         Cardinality({j \in 1..Len(filteredData) : filteredData[j] = data[i]}) = 1

\* two rows of one section are loaded and a blank search term has been applied
WitnessDefaultFilterIdentity ==
  /\ DefaultFilter
  /\ filters.searchTerm = " "
  /\ Len(data) = 2
  /\ Len(groups(data)) = 1
  /\ Len(filteredData) = 2

\* C26: after any sequence of handleFilterChange calls whose act and
\* regulation values are taken from the lists offered at that moment,
\* filters.actName is 'All' or a member of the current availableActs, and
\* filters.legislationName is 'All' or a member of the current
\* availableLegislation.
SelectedLegislationOffered ==
  Ready =>
    /\ filters.actName \in {All} \cup Names(availableActs)
    /\ filters.legislationName \in {All} \cup Names(availableLegislation)

\* a regulation is selected under its act
WitnessSelectedLegislationOffered ==
  /\ filters.actName = "Fisheries Act"
  /\ filters.legislationName = "Fishery Regulations"

\* the selected values of the four clause-attribute filters are offered
ClauseSelectionsOffered ==
  /\ filters.clauseType \in {All} \cup Names(availableClauseTypes)
  /\ filters.actionableType \in {All} \cup Names(availableActionableTypes)
  /\ filters.responsibleOfficial \in {All} \cup Names(availableResponsibleOfficials)
  /\ filters.discretionType \in {All} \cup Names(availableDiscretionTypes)

\* C27: each selected clause-attribute filter (clause type, actionable type,
\* responsible official, discretion type) is 'All' or a member of the option
\* list currently offered for it; a change of domain, jurisdiction, act or
\* regulation never leaves a selected value that is no longer offered.
SelectedClauseAttributesOffered == Ready => ClauseSelectionsOffered

\* the state resetFilters leaves
ResetDone == lastOp = "reset" => filters = DefaultFilters /\ localSearchTerm = ""

\* a step of the debounce callback
TimerStep == timer.pending /\ ~timer'.pending

\* from a state with no applied and no typed term, as the reset leaves it, and
\* as long as nothing is typed, the applied term stays '' and the debounce
\* callback changes no filter field
QuietAfterReset ==
  (filters.searchTerm = "" /\ localSearchTerm = "" /\ localSearchTerm' = "") =>
    /\ filters'.searchTerm = ""
    /\ TimerStep => filters' = filters

\* C29: reset is final.  After resetFilters every filter dimension is 'All'
\* and searchTerm is '', and no debounce timer that was pending at the time of
\* the reset later sets filters.searchTerm to a non-empty value or changes
\* any other filter field, unless the user types again.
ResetIsFinal == []ResetDone /\ [][QuietAfterReset]_vars

\* the filters have been reset and a debounce timer is pending
WitnessResetIsFinal ==
  /\ lastOp = "reset"
  /\ timer.pending
  /\ Len(data) > 0

\* C30: displayed sections are complete.  For every filter state, each section
\* group the list component builds from filteredData contains exactly the
\* rows of the first-pass survivors that share its (legislation_id,
\* section-key): the grouping of the filter and the grouping of the list never
\* disagree so as to show a partial or a merged section.
DisplayedSectionsComplete ==
  LET shown == listGroups(filteredData)
      survivors == base(data, filters)
      Section(key) == {i \in 1..Len(survivors) : SectionKey(survivors[i]) = key}
  IN  \A k \in 1..Len(shown) :
        LET key == listSectionKey(shown[k][1])
        IN  /\ \A i \in 1..Len(shown[k]) : SectionKey(shown[k][i]) = key
            /\ Range(shown[k]) = {survivors[i] : i \in Section(key)}
            /\ Len(shown[k]) = Cardinality(Section(key))

\* a section of two rows is shown for a selected domain one of its rows lacks
WitnessDisplayedSectionsComplete ==
  LET shown == listGroups(filteredData)
  IN  /\ filters.managementDomain # All
      /\ \E k \in 1..Len(shown) :
            /\ Len(shown[k]) = 2
            /\ \E i \in 1..2 : ~ItemMatches(shown[k][i], filters)

====
